---- MODULE Spec2Model ----
(***************************************************************************)
(* Analytics and forecasting engine of the Bitcoin dashboard.              *)
(*                                                                         *)
(* JavaScript numbers are modelled as fixed-point values with SCALE        *)
(* fractional units (every arithmetic result is rounded down to the grid,  *)
(* as a float result is rounded to its grid), extended with NaN, the two   *)
(* infinities, null and undefined.  Math.random() is modelled by a tape of *)
(* draws read cyclically.                                                  *)
(***************************************************************************)
EXTENDS Integers, Naturals, Sequences, FiniteSets, TLC

\* ------------------------------------------------------------------ bounds
MaxLen == 3           \* longest price series handed to a forecast model
MaxHorizon == 2       \* largest forecast horizon
MaxLookback == 4      \* largest LSTM lookback parameter
MaxSims == 2          \* largest Monte Carlo simulation count
TapeLen == 2          \* period of the tape of Math.random() draws
MaxPrice == 3         \* prices are the whole numbers 1..MaxPrice
DashMaxLen == 2       \* longest series the price API returns to the dashboard
MaxFetchCalls == 2    \* fetchData calls (the mount effect, re-run on remount)

SCALE == 10000        \* fixed-point units per 1.0

\* ------------------------------------------------------------- JS numbers
Num(v) == [k |-> "num", v |-> v]
NaN == [k |-> "nan", v |-> 0]
Inf(s) == [k |-> "inf", v |-> s]
Null == [k |-> "null", v |-> 0]
Undefined == [k |-> "undef", v |-> 0]

\* an integer n as a JS number
I(n) == Num(n * SCALE)

\* ToNumber: null -> 0, undefined -> NaN
ToNum(a) == IF a.k = "null" THEN Num(0) ELSE IF a.k = "undef" THEN NaN ELSE a

IsDefinedNumber(a) == a.k \in {"num", "inf"}
IsFinite(a) == a.k = "num"

Sgn(n) == IF n > 0 THEN 1 ELSE IF n < 0 THEN -1 ELSE 0
AbsI(n) == IF n < 0 THEN -n ELSE n

\* a * b / SCALE rounded down, without forming a * b
MulFixOrd(a, b) ==
    (a \div SCALE) * b + (a % SCALE) * (b \div SCALE)
    + ((a % SCALE) * (b % SCALE)) \div SCALE
MulFix(a, b) == IF AbsI(a) >= AbsI(b) THEN MulFixOrd(a, b) ELSE MulFixOrd(b, a)

\* a * SCALE / b rounded down (b > 0), without forming a * SCALE: long
\* division, two decimal digits at a time
DivFixPos(a, b) ==
    (a \div b) * SCALE
    + (((a % b) * 100) \div b) * 100
    + ((((a % b) * 100) % b) * 100) \div b
DivFix(a, b) == IF b > 0 THEN DivFixPos(a, b) ELSE DivFixPos(-a, -b)

RECURSIVE SqrtSearch(_, _, _)
SqrtSearch(n, lo, hi) ==
    IF lo >= hi THEN lo
    ELSE LET mid == (lo + hi + 1) \div 2
         IN IF mid * mid <= n THEN SqrtSearch(n, mid, hi)
            ELSE SqrtSearch(n, lo, mid - 1)

\* largest r with r * r <= n
Isqrt(n) == SqrtSearch(n, 0, IF n < 46340 THEN n ELSE 46340)

\* the operators ending in N take operands already converted by ToNum
FNegN(a) ==
    IF a.k = "nan" THEN NaN
    ELSE IF a.k = "inf" THEN Inf(-a.v)
    ELSE Num(-a.v)

FNeg(x) == FNegN(ToNum(x))

FAddN(a, b) ==
    IF a.k = "nan" \/ b.k = "nan" THEN NaN
    ELSE IF a.k = "inf" /\ b.k = "inf" THEN (IF a.v = b.v THEN a ELSE NaN)
    ELSE IF a.k = "inf" THEN a
    ELSE IF b.k = "inf" THEN b
    ELSE Num(a.v + b.v)

FAdd(x, y) == FAddN(ToNum(x), ToNum(y))

FSub(x, y) == FAddN(ToNum(x), FNegN(ToNum(y)))

FMulN(a, b) ==
    IF a.k = "nan" \/ b.k = "nan" THEN NaN
    ELSE IF a.k = "inf" \/ b.k = "inf"
         THEN (IF Sgn(a.v) * Sgn(b.v) = 0 THEN NaN ELSE Inf(Sgn(a.v) * Sgn(b.v)))
    ELSE Num(MulFix(a.v, b.v))

FMul(x, y) == FMulN(ToNum(x), ToNum(y))

FDivN(a, b) ==
    IF a.k = "nan" \/ b.k = "nan" THEN NaN
    ELSE IF a.k = "inf" /\ b.k = "inf" THEN NaN
    ELSE IF a.k = "inf" THEN Inf(IF b.v < 0 THEN -a.v ELSE a.v)
    ELSE IF b.k = "inf" THEN Num(0)
    ELSE IF b.v = 0 THEN (IF a.v = 0 THEN NaN ELSE Inf(Sgn(a.v)))
    ELSE Num(DivFix(a.v, b.v))

FDiv(x, y) == FDivN(ToNum(x), ToNum(y))

\* comparisons: every comparison with NaN is false
FLtN(a, b) ==
    IF a.k = "nan" \/ b.k = "nan" THEN FALSE
    ELSE IF a.k = "inf" /\ b.k = "inf" THEN a.v < b.v
    ELSE IF a.k = "inf" THEN a.v < 0
    ELSE IF b.k = "inf" THEN b.v > 0
    ELSE a.v < b.v

FLt(x, y) == FLtN(ToNum(x), ToNum(y))

FEqN(a, b) == IF a.k = "nan" \/ b.k = "nan" THEN FALSE ELSE a = b

FEq(x, y) == FEqN(ToNum(x), ToNum(y))

FLeN(a, b) == FLtN(a, b) \/ FEqN(a, b)

FLe(x, y) == FLeN(ToNum(x), ToNum(y))
FGt(x, y) == FLtN(ToNum(y), ToNum(x))
FGe(x, y) == FLeN(ToNum(y), ToNum(x))

\* strict equality of two JS values (===)
StrictEq(a, b) == IF a.k = "nan" \/ b.k = "nan" THEN FALSE ELSE a = b

\* truthiness of a JS number-or-null value
Truthy(a) == ~(a.k \in {"nan", "null", "undef"}) /\ ~(a.k = "num" /\ a.v = 0)

\* a || b
OrElse(a, b) == IF Truthy(a) THEN a ELSE b

FAbsN(a) ==
    IF a.k = "nan" THEN NaN
    ELSE IF a.k = "inf" THEN Inf(1)
    ELSE Num(AbsI(a.v))

FAbs(x) == FAbsN(ToNum(x))

FSqrtN(a) ==
    IF a.k = "nan" THEN NaN
    ELSE IF a.k = "inf" THEN (IF a.v > 0 THEN a ELSE NaN)
    ELSE IF a.v < 0 THEN NaN
    ELSE IF a.v <= 200000 THEN Num(Isqrt(a.v * SCALE))
    ELSE Num(Isqrt(a.v) * Isqrt(SCALE))

FSqrt(x) == FSqrtN(ToNum(x))

FMax2N(a, b) ==
    IF a.k = "nan" \/ b.k = "nan" THEN NaN ELSE IF FLtN(a, b) THEN b ELSE a

FMax2(x, y) == FMax2N(ToNum(x), ToNum(y))

FMin2N(a, b) ==
    IF a.k = "nan" \/ b.k = "nan" THEN NaN ELSE IF FLtN(b, a) THEN b ELSE a

FMin2(x, y) == FMin2N(ToNum(x), ToNum(y))

\* Math.floor of a finite number, as an integer
FloorInt(a) == a.v \div SCALE

\* Math.exp by its degree-4 Taylor polynomial
FExp(x) ==
    LET x2 == FMul(x, x)
        x3 == FMul(x2, x)
        x4 == FMul(x3, x)
    IN FAdd(FAdd(FAdd(FAdd(I(1), x), FDiv(x2, I(2))), FDiv(x3, I(6))), FDiv(x4, I(24)))

\* Math.sin and Math.cos by their Taylor polynomials (small arguments)
FSin(x) ==
    LET x2 == FMul(x, x)
        x3 == FMul(x2, x)
        x5 == FMul(x3, x2)
    IN FAdd(FSub(x, FDiv(x3, I(6))), FDiv(x5, I(120)))

FCos(x) ==
    LET x2 == FMul(x, x)
        x4 == FMul(x2, x2)
    IN FAdd(FSub(I(1), FDiv(x2, I(2))), FDiv(x4, I(24)))

\* ---------------------------------------------------------- array helpers
RECURSIVE FSumFrom(_, _, _)
\* (a NaN sum stays NaN whatever is added to it)
FSumFrom(s, i, acc) ==
    IF i > Len(s) THEN acc
    ELSE IF acc.k = "nan" THEN NaN
    ELSE FSumFrom(s, i + 1, FAdd(acc, s[i]))

\* s.reduce((sum, x) => sum + x, 0)
FSum(s) == FSumFrom(s, 1, Num(0))

\* s.reduce(...) / s.length
FMean(s) == FDiv(FSum(s), I(Len(s)))

\* arr.slice(from, to) with 0-based non-negative arguments
Slice(s, from, to) ==
    LET t == IF to > Len(s) THEN Len(s) ELSE to
    IN IF from >= t THEN << >> ELSE [i \in 1..(t - from) |-> s[from + i]]

\* arr.slice(-n) for n >= 1
SliceLast(s, n) == IF n >= Len(s) THEN s ELSE Slice(s, Len(s) - n, Len(s))

RECURSIVE InsertSorted(_, _, _)
InsertSorted(s, x, i) ==
    IF i > Len(s) THEN Append(s, x)
    ELSE IF FLt(x, s[i]) THEN SubSeq(s, 1, i - 1) \o <<x>> \o SubSeq(s, i, Len(s))
    ELSE InsertSorted(s, x, i + 1)

RECURSIVE SortFrom(_, _)
\* insertion of s[Len(acc) + 1] into the sorted acc
SortFrom(s, acc) ==
    IF Len(acc) >= Len(s) THEN acc
    ELSE SortFrom(s, InsertSorted(acc, s[Len(acc) + 1], 1))

\* arr.sort((a, b) => a - b); a comparator that returns NaN leaves the order
SortAsc(s) == SortFrom(s, << >>)

RECURSIVE FMaxFrom(_, _, _)
FMaxFrom(s, i, acc) ==
    IF i > Len(s) THEN acc
    ELSE IF acc.k = "nan" THEN NaN
    ELSE FMaxFrom(s, i + 1, FMax2(acc, s[i]))

\* Math.max(...s)
FMaxOf(s) == FMaxFrom(s, 1, Inf(-1))

RECURSIVE FMinFrom(_, _, _)
FMinFrom(s, i, acc) ==
    IF i > Len(s) THEN acc
    ELSE IF acc.k = "nan" THEN NaN
    ELSE FMinFrom(s, i + 1, FMin2(acc, s[i]))

\* Math.min(...s)
FMinOf(s) == FMinFrom(s, 1, Inf(1))

\* arr[idx] with a 0-based index; out of range is undefined
At(s, idx) == IF idx >= 0 /\ idx < Len(s) THEN s[idx + 1] ELSE Undefined

\* the tape of Math.random() draws, read cyclically from position pos
Rnd(tape, pos) == tape[(pos % Len(tape)) + 1]

\* ------------------------------------------------------- forecast models
\* a historical item is a record with a price, or null (a malformed element
\* of the upstream array, on which d.price raises a TypeError)
Item(p) == [price |-> p]
NullItem == [isNull |-> TRUE]
IsNullItem(d) == "isNull" \in DOMAIN d

\* data.map(d => d.price) raises when an element is null
MapPriceThrows(data) == \E i \in 1..Len(data) : IsNullItem(data[i])

\* data.map(d => d.price)
PricesOf(data) == [i \in 1..Len(data) |-> data[i].price]

\* returns.push((prices[i] - prices[i-1]) / prices[i-1]) for i = 1..length-1
ReturnsOf(prices) ==
    IF Len(prices) < 2 THEN << >>
    ELSE [i \in 1..(Len(prices) - 1) |->
            FDiv(FSub(prices[i + 1], prices[i]), prices[i])]

\* returns.reduce((sum, r) => sum + Math.pow(r - mean, 2), 0) / returns.length
VarianceOf(returns, mean) ==
    FMean([i \in 1..Len(returns) |->
            FMul(FSub(returns[i], mean), FSub(returns[i], mean))])

\* (Math.random() - 0.5) * 2
Centered(r) == FMul(FSub(r, Num(5000)), I(2))

SQRT3 == Num(17320)

Threw == [threw |-> TRUE, forecast |-> << >>]

\* confidence: 0.95 - (i / horizon) * 0.2
ARIMAConfidence_Growing(i, horizon) ==
    FAdd(Num(9500), FMul(FDiv(I(i), I(horizon)), Num(2000)))

ARIMAConfidence(i, horizon) ==
    FSub(Num(9500), FMul(FDiv(I(i), I(horizon)), Num(2000)))

RECURSIVE ARIMALoop(_, _, _, _, _, _, _)
ARIMALoop(i, horizon, forecast, currentPrice, mean, volatility, tape) ==
    IF i >= horizon THEN forecast
    ELSE LET drift == mean
             shock == FMul(Centered(Rnd(tape, i)), volatility)
             change == FAdd(drift, shock)
             newPrice == IF i = 0 THEN FMul(currentPrice, FAdd(I(1), change))
                         ELSE FMul(forecast[i].price, FAdd(I(1), change))
             garchVol == FMul(volatility, FAdd(I(1), FMul(Num(1000), FAbs(shock))))
             upperBound == FMul(newPrice, FAdd(I(1), FMul(Num(19600), garchVol)))
             lowerBound == FMul(newPrice, FSub(I(1), FMul(Num(19600), garchVol)))
             point == [price |-> newPrice, upperBound |-> upperBound,
                       lowerBound |-> lowerBound,
                       confidence |-> ARIMAConfidence(i, horizon)]
         IN ARIMALoop(i + 1, horizon, Append(forecast, point),
                      currentPrice, mean, volatility, tape)

generateARIMAGARCH(data, horizon, params, tape) ==
    IF MapPriceThrows(data) THEN Threw
    ELSE LET prices == PricesOf(data)
             returns == ReturnsOf(prices)
             currentPrice == At(prices, Len(prices) - 1)
             mean == FMean(returns)
             volatility == FSqrt(VarianceOf(returns, mean))
         IN [threw |-> FALSE,
             forecast |-> ARIMALoop(0, horizon, << >>, currentPrice, mean,
                                    volatility, tape),
             metrics |-> [meanReturn |-> mean, volatility |-> volatility]]

\* similarity += Math.abs(pattern[k] - recentPrices[k]) / recentPrices[k]
RECURSIVE LSTMSimilarity(_, _, _, _, _)
LSTMSimilarity(pattern, recentPrices, lookback, k, acc) ==
    IF k >= lookback THEN acc
    ELSE LSTMSimilarity(pattern, recentPrices, lookback, k + 1,
             FAdd(acc, FDiv(FAbs(FSub(At(pattern, k), At(recentPrices, k))),
                            At(recentPrices, k))))

\* the inner loop over j; the result is <<prediction, weightSum>>
RECURSIVE LSTMPatterns(_, _, _, _, _, _, _)
LSTMPatterns(prices, recentPrices, lookback, j, last, prediction, weightSum) ==
    IF j >= last THEN <<prediction, weightSum>>
    ELSE LET pattern == Slice(prices, j - lookback, j)
             target == At(prices, j)
             similarity == FDiv(I(1), FAdd(I(1),
                              LSTMSimilarity(pattern, recentPrices, lookback, 0, Num(0))))
         IN LSTMPatterns(prices, recentPrices, lookback, j + 1, last,
                         FAdd(prediction, FMul(target, similarity)),
                         FAdd(weightSum, similarity))

\* variant: the fallback takes the first price of the series
LSTMFallbackPrice_First(prices, currentPrice) == At(prices, 0)

LSTMFallbackPrice(prices, currentPrice) == currentPrice

\* confidence: Math.max(0.5, 0.9 - (i / horizon) * 0.4)
LSTMConfidence(i, horizon) ==
    FMax2(Num(5000), FSub(Num(9000), FMul(FDiv(I(i), I(horizon)), Num(4000))))

RECURSIVE LSTMLoop(_, _, _, _, _, _, _)
LSTMLoop(i, horizon, forecast, prices, recentPrices, lookback, currentPrice) ==
    IF i >= horizon THEN forecast
    ELSE LET pw == LSTMPatterns(prices, recentPrices, lookback, lookback,
                                Len(prices) - horizon + i, Num(0), Num(0))
             predictedPrice == IF FGt(pw[2], Num(0)) THEN FDiv(pw[1], pw[2])
                               ELSE LSTMFallbackPrice(prices, currentPrice)
             uncertainty == FMul(FMul(FSqrt(I(i + 1)), currentPrice), Num(200))
             point == [price |-> predictedPrice,
                       upperBound |-> FAdd(predictedPrice, uncertainty),
                       lowerBound |-> FSub(predictedPrice, uncertainty),
                       confidence |-> LSTMConfidence(i, horizon)]
         IN LSTMLoop(i + 1, horizon, Append(forecast, point), prices,
                     Tail(Append(recentPrices, predictedPrice)), lookback,
                     currentPrice)

generateLSTM(data, horizon, params, tape) ==
    IF MapPriceThrows(data) THEN Threw
    ELSE LET prices == PricesOf(data)
             currentPrice == At(prices, Len(prices) - 1)
             lookback == IF params.lookback < Len(prices) THEN params.lookback
                         ELSE Len(prices)
             recentPrices == SliceLast(prices, lookback)
         IN [threw |-> FALSE,
             forecast |-> LSTMLoop(0, horizon, << >>, prices, recentPrices,
                                   lookback, currentPrice),
             metrics |-> [mse |-> Num(10), epochs |-> params.epochs]]

\* mean + volatility * (Math.random() - 0.5) * 2 * Math.sqrt(3)
UniformReturn(mean, volatility, r) ==
    FAdd(mean, FMul(FMul(FMul(volatility, FSub(r, Num(5000))), I(2)), SQRT3))

\* Math.floor(n * pct / 100) for an array length n
FloorPct_Rounded(n, pct) == (n * pct + 50) \div 100

FloorPct(n, pct) == (n * pct) \div 100

\* one stored path of the first loop; the result is its final price
RECURSIVE MCPath(_, _, _, _, _, _, _, _)
MCPath(day, horizon, last, currentPrice, mean, volatility, tape, pos) ==
    IF day >= horizon THEN last
    ELSE LET randomReturn == UniformReturn(mean, volatility, Rnd(tape, pos + day))
             newPrice == FMul(last, FAdd(I(1), randomReturn))
         IN MCPath(day + 1, horizon, FMax2(newPrice, FMul(currentPrice, Num(1000))),
                   currentPrice, mean, volatility, tape, pos)

\* the re-simulated price of one simulation for forecast day i
RECURSIVE MCDayPrice(_, _, _, _, _, _, _)
MCDayPrice(day, i, price, mean, volatility, tape, pos) ==
    IF day > i THEN price
    ELSE MCDayPrice(day + 1, i,
                    FMul(price, FAdd(I(1),
                         UniformReturn(mean, volatility, Rnd(tape, pos + day)))),
                    mean, volatility, tape, pos)

MCSampleSize(simulations) == IF simulations < 100 THEN simulations ELSE 100

RECURSIVE MCLoop(_, _, _, _, _, _, _, _)
MCLoop(i, horizon, forecast, currentPrice, mean, params, tape, pos) ==
    IF i >= horizon THEN forecast
    ELSE LET n == MCSampleSize(params.simulations)
             dayPrices == SortAsc([sim \in 1..n |->
                              MCDayPrice(0, i, currentPrice, mean, params.volatility,
                                         tape, pos + (sim - 1) * (i + 1))])
             point == [price |-> At(dayPrices, FloorPct(Len(dayPrices), 50)),
                       upperBound |-> At(dayPrices, FloorPct(Len(dayPrices), 95)),
                       lowerBound |-> At(dayPrices, FloorPct(Len(dayPrices), 5)),
                       confidence |-> Num(9000)]
         IN MCLoop(i + 1, horizon, Append(forecast, point), currentPrice, mean,
                   params, tape, pos + n * (i + 1))

generateMonteCarlo(data, horizon, params, tape) ==
    IF MapPriceThrows(data) THEN Threw
    ELSE LET prices == PricesOf(data)
             returns == ReturnsOf(prices)
             mean == FMean(returns)
             currentPrice == At(prices, Len(prices) - 1)
             simulations == SortAsc([sim \in 1..params.simulations |->
                                MCPath(0, horizon, currentPrice, currentPrice, mean,
                                       params.volatility, tape, (sim - 1) * horizon)])
         IN [threw |-> FALSE,
             forecast |-> MCLoop(0, horizon, << >>, currentPrice, mean, params,
                                 tape, params.simulations * horizon),
             metrics |-> [mean |-> FMean(simulations),
                          median |-> At(simulations, FloorPct(Len(simulations), 50)),
                          percentile5 |-> At(simulations, FloorPct(Len(simulations), 5)),
                          percentile95 |-> At(simulations, FloorPct(Len(simulations), 95)),
                          volatility |-> params.volatility]]

\* currentPrice * Math.exp(drift + diffusion)
BlackScholesPrice_Linear(currentPrice, drift, diffusion) ==
    FMul(currentPrice, FAdd(drift, diffusion))

BlackScholesPrice(currentPrice, drift, diffusion) ==
    FMul(currentPrice, FExp(FAdd(drift, diffusion)))

RECURSIVE BlackScholesLoop(_, _, _, _, _, _)
BlackScholesLoop(i, horizon, forecast, currentPrice, params, tape) ==
    IF i >= horizon THEN forecast
    ELSE LET t == FDiv(I(i + 1), I(365))
             drift == FMul(params.riskFreeRate, t)
             diffusion == FMul(FMul(FMul(params.volatility, FSqrt(t)),
                                    FSub(Rnd(tape, i), Num(5000))), I(2))
             predictedPrice == BlackScholesPrice(currentPrice, drift, diffusion)
             point == [price |-> predictedPrice,
                       upperBound |-> FMul(predictedPrice, Num(12000)),
                       lowerBound |-> FMul(predictedPrice, Num(8000)),
                       confidence |-> Num(8000)]
         IN BlackScholesLoop(i + 1, horizon, Append(forecast, point), currentPrice,
                             params, tape)

generateBlackScholes(data, horizon, params, tape) ==
    IF Len(data) = 0 \/ IsNullItem(data[Len(data)]) THEN Threw
    ELSE [threw |-> FALSE,
          forecast |-> BlackScholesLoop(0, horizon, << >>, data[Len(data)].price,
                                        params, tape),
          metrics |-> [impliedVol |-> params.volatility,
                       riskFreeRate |-> params.riskFreeRate]]

RECURSIVE JumpDiffusionLoop(_, _, _, _, _, _, _, _, _)
JumpDiffusionLoop(i, horizon, forecast, currentPrice, mean, vol, params, tape, pos) ==
    IF i >= horizon THEN forecast
    ELSE LET diffusion == UniformReturn(mean, vol, Rnd(tape, pos))
             jumps == FLt(Rnd(tape, pos + 1), params.jumpIntensity)
             jump == IF jumps
                     THEN FMul(FMul(FSub(Rnd(tape, pos + 2), Num(5000)),
                                    params.jumpSize), I(2))
                     ELSE Num(0)
             totalReturn == FAdd(diffusion, jump)
             newPrice == IF i = 0 THEN FMul(currentPrice, FAdd(I(1), totalReturn))
                         ELSE FMul(forecast[i].price, FAdd(I(1), totalReturn))
             uncertainty == FMul(FMul(vol, FSqrt(I(i + 1))),
                                 FAdd(I(1), params.jumpIntensity))
             point == [price |-> newPrice,
                       upperBound |-> FMul(newPrice, FAdd(I(1), uncertainty)),
                       lowerBound |-> FMul(newPrice, FSub(I(1), uncertainty)),
                       jumpProbability |-> params.jumpIntensity,
                       confidence |-> Num(8500)]
         IN JumpDiffusionLoop(i + 1, horizon, Append(forecast, point), currentPrice,
                              mean, vol, params, tape,
                              pos + (IF jumps THEN 3 ELSE 2))

generateJumpDiffusion(data, horizon, params, tape) ==
    IF MapPriceThrows(data) THEN Threw
    ELSE LET prices == PricesOf(data)
             returns == ReturnsOf(prices)
             mean == FMean(returns)
             volatility == FSqrt(VarianceOf(returns, mean))
             currentPrice == At(prices, Len(prices) - 1)
         IN [threw |-> FALSE,
             forecast |-> JumpDiffusionLoop(0, horizon, << >>, currentPrice, mean,
                                            volatility, params, tape, 0),
             metrics |-> [diffusionVol |-> volatility,
                          expectedJumps |-> FMul(I(horizon), params.jumpIntensity)]]

\* Bull, Bear, Sideways
MarkovRegimes ==
    << [name |-> "Bull", mean |-> Num(20), volatility |-> Num(200),
        probability |-> Num(4000)],
       [name |-> "Bear", mean |-> Num(-10), volatility |-> Num(400),
        probability |-> Num(3000)],
       [name |-> "Sideways", mean |-> Num(5), volatility |-> Num(150),
        probability |-> Num(3000)] >>

\* the regime inferred from the trailing 30 returns (0-based index)
MarkovInitialRegime(returns) ==
    LET recentReturns == SliceLast(returns, 30)
        recentMean == FMean(recentReturns)
        recentVol == FSqrt(VarianceOf(recentReturns, recentMean))
    IN IF FLt(recentMean, Num(-10)) /\ FGt(recentVol, Num(300)) THEN 1
       ELSE IF FLt(FAbs(recentMean), Num(10)) /\ FLt(recentVol, Num(200)) THEN 2
       ELSE 0

\* the result is the forecast, or threw when regimes[currentRegime] is undefined
RECURSIVE MarkovLoop(_, _, _, _, _, _, _, _)
MarkovLoop(i, horizon, forecast, currentPrice, currentRegime, params, tape, pos) ==
    IF i >= horizon THEN [threw |-> FALSE, forecast |-> forecast,
                          currentRegime |-> currentRegime]
    ELSE LET switches == FLt(Rnd(tape, pos), Num(500))
             regimeIdx == IF switches
                          THEN FloorInt(FMul(Rnd(tape, pos + 1), I(params.regimes)))
                          ELSE currentRegime
             pos2 == pos + (IF switches THEN 2 ELSE 1)
         IN IF regimeIdx >= Len(MarkovRegimes) THEN Threw
            ELSE LET regime == MarkovRegimes[regimeIdx + 1]
                     randomReturn == UniformReturn(regime.mean, regime.volatility,
                                                   Rnd(tape, pos2))
                     newPrice == IF i = 0
                                 THEN FMul(currentPrice, FAdd(I(1), randomReturn))
                                 ELSE FMul(forecast[i].price, FAdd(I(1), randomReturn))
                     point == [price |-> newPrice,
                               upperBound |-> FMul(newPrice,
                                   FAdd(I(1), FMul(regime.volatility, I(2)))),
                               lowerBound |-> FMul(newPrice,
                                   FSub(I(1), FMul(regime.volatility, I(2)))),
                               regime |-> regime.name,
                               regimeProb |-> regime.probability,
                               confidence |-> Num(7500)]
                 IN MarkovLoop(i + 1, horizon, Append(forecast, point), currentPrice,
                               regimeIdx, params, tape, pos2 + 1)

generateMarkov(data, horizon, params, tape) ==
    IF MapPriceThrows(data) THEN Threw
    ELSE LET prices == PricesOf(data)
             returns == ReturnsOf(prices)
             currentPrice == At(prices, Len(prices) - 1)
             run == MarkovLoop(0, horizon, << >>, currentPrice,
                               MarkovInitialRegime(returns), params, tape, 0)
         IN IF run.threw THEN Threw
            ELSE [threw |-> FALSE, forecast |-> run.forecast,
                  currentRegime |-> MarkovRegimes[run.currentRegime + 1].name,
                  metrics |-> [aic |-> I(205)]]

\* the last element of each simulated macro series; series k (0, 1, 2) draws
\* its elements after those of the series before it
MacroLast(len, tape) ==
    LET x(c) == FMul(I(len - 1), c)
    IN [sp500 |-> FAdd(FAdd(I(4000), FMul(FSin(x(Num(1000))), I(200))),
                       FMul(Rnd(tape, len - 1), I(100))),
        gold |-> FAdd(FAdd(I(2000), FMul(FCos(x(Num(500))), I(100))),
                      FMul(Rnd(tape, 2 * len - 1), I(50))),
        vix |-> FAdd(FAdd(I(20), FMul(FSin(x(Num(1500))), I(10))),
                     FMul(Rnd(tape, 3 * len - 1), I(5)))]

VARCorrelation(varName) ==
    IF varName = "sp500" THEN Num(6000)
    ELSE IF varName = "gold" THEN Num(-3000) ELSE Num(-4000)

\* the autoregressive component: prices[length - lag] * (0.1 / lag)
RECURSIVE VARPriceContribution(_, _, _, _)
VARPriceContribution(prices, lag, maxLag, acc) ==
    IF lag > maxLag THEN acc
    ELSE VARPriceContribution(prices, lag + 1, maxLag,
             FAdd(acc, FMul(At(prices, Len(prices) - lag), FDiv(Num(1000), I(lag)))))

RECURSIVE VARMacroContribution(_, _, _, _)
VARMacroContribution(macroVars, macro, k, acc) ==
    IF k > Len(macroVars) THEN acc
    ELSE VARMacroContribution(macroVars, macro, k + 1,
             IF macroVars[k] \in DOMAIN macro
             THEN FAdd(acc, FMul(FMul(macro[macroVars[k]],
                                      VARCorrelation(macroVars[k])), Num(100)))
             ELSE acc)

RECURSIVE VARLoop(_, _, _, _, _, _, _)
VARLoop(i, horizon, forecast, prices, currentPrice, params, macro) ==
    IF i >= horizon THEN forecast
    ELSE LET maxLag == IF params.lags < Len(prices) THEN params.lags ELSE Len(prices)
             priceContribution == VARPriceContribution(prices, 1, maxLag, Num(0))
             macroContribution == VARMacroContribution(params.macroVars, macro, 1, Num(0))
             predictedPrice == FAdd(FAdd(FMul(priceContribution, Num(10)), currentPrice),
                                    macroContribution)
             uncertainty == FMul(FMul(currentPrice, Num(300)), FSqrt(I(i + 1)))
             point == [price |-> predictedPrice,
                       upperBound |-> FAdd(predictedPrice, uncertainty),
                       lowerBound |-> FSub(predictedPrice, uncertainty),
                       confidence |-> Num(8000)]
         IN VARLoop(i + 1, horizon, Append(forecast, point), prices, currentPrice,
                    params, macro)

\* variant: the loop runs while i <= horizon
generateVAR_ExtraStep(data, horizon, params, tape) ==
    IF MapPriceThrows(data) THEN Threw
    ELSE LET prices == PricesOf(data)
             currentPrice == At(prices, Len(prices) - 1)
         IN [threw |-> FALSE,
             forecast |-> VARLoop(0, horizon + 1, << >>, prices, currentPrice, params,
                                  MacroLast(Len(prices), tape)),
             metrics |-> [r_squared |-> Num(7500), lag_order |-> params.lags]]

generateVAR(data, horizon, params, tape) ==
    IF MapPriceThrows(data) THEN Threw
    ELSE LET prices == PricesOf(data)
             currentPrice == At(prices, Len(prices) - 1)
         IN [threw |-> FALSE,
             forecast |-> VARLoop(0, horizon, << >>, prices, currentPrice, params,
                                  MacroLast(Len(prices), tape)),
             metrics |-> [r_squared |-> Num(7500), lag_order |-> params.lags]]

\* ------------------------------------------------------------ input sets
Prices == {I(p) : p \in 1..MaxPrice}

\* Math.random() returns a value in [0, 1)
Rand == {Num(0), Num(5000), Num(9999)}
Tapes == [1..TapeLen -> Rand]

SeqsUpTo(S, n) == UNION {[1..m -> S] : m \in 0..n}

\* structurally valid series of length 1..MaxLen
ValidSeries == {[i \in 1..Len(ps) |-> Item(ps[i])] : ps \in SeqsUpTo(Prices, MaxLen) \ {<< >>}}

\* the parameter bundles of modelParams
ARIMAParams == [p |-> 2, d |-> 1, q |-> 2]
LSTMParams(lookback) == [lookback |-> lookback, epochs |-> 100]
MonteCarloParams(simulations) == [simulations |-> simulations, volatility |-> Num(400)]
BlackScholesParams == [riskFreeRate |-> Num(500), volatility |-> Num(6000)]
JumpDiffusionParams == [jumpIntensity |-> Num(1000), jumpSize |-> Num(1000)]
MarkovParams == [regimes |-> 3]
VARParams == [lags |-> 5, macroVars |-> <<"sp500", "gold", "vix">>]

ModelIds == {"arima", "lstm", "monteCarlo", "blackScholes", "jumpDiffusion",
             "markov", "var"}

\* ------------------------------------------------------------------ state
VARIABLES
    historicalData,    \* forecasting dashboard: the series being forecast
    forecastData,      \* forecasting dashboard: model id -> result ({} at first)
    forecastHorizon,   \* forecasting dashboard: horizon in days
    isLoading,         \* forecasting dashboard: loading flag
    fetchCalls,        \* fetchData calls made so far
    fetchInFlight,     \* fetchData calls awaiting their responses
    lastCall,          \* what generateForecasts did in the latest step
    modelRun,          \* the last single-model call: model id, params, result
    terminalData,      \* terminal dashboard: its historicalData
    technicalData,     \* terminal dashboard: the technicalData memo
    macdData,          \* terminal dashboard: the macdData memo
    portfolioAnalytics, \* terminal dashboard: the portfolioAnalytics memo
    selectedTimeframe, \* terminal dashboard: the timeframe shown
    terminalIsLoading, \* terminal dashboard: its isLoading flag
    historicalFetches, \* terminal dashboard: fetchHistoricalData calls awaiting a response
    mountStage,        \* terminal dashboard: how far the mount effects have run
    fetchLog,          \* terminal dashboard: fetchHistoricalData calls that succeeded / failed
    comparisonRows     \* forecasting dashboard: the rows of the rendered model comparison

fetchVars == <<selectedTimeframe, terminalIsLoading, historicalFetches, mountStage,
               fetchLog>>

termVars == <<terminalData, technicalData, macdData, portfolioAnalytics, fetchVars>>

vars == <<historicalData, forecastData, forecastHorizon, isLoading, fetchCalls,
          fetchInFlight, lastCall, modelRun, termVars, comparisonRows>>

\* portfolioAnalytics of an empty technicalData is {}: every field undefined
EmptyAnalytics ==
    [volatility |-> Undefined, var1 |-> Undefined, var5 |-> Undefined,
     var10 |-> Undefined, cvar5 |-> Undefined, maxDrawdown |-> Undefined,
     sharpeRatio |-> Undefined, sortinoRatio |-> Undefined,
     calmarRatio |-> Undefined]

\* the terminal dashboard after its first render: no data, empty memos
InitTerminal ==
    /\ terminalData = << >>
    /\ technicalData = << >>
    /\ macdData = << >>
    /\ portfolioAnalytics = EmptyAnalytics
    /\ selectedTimeframe = "1y"
    /\ terminalIsLoading = FALSE
    /\ historicalFetches = << >>
    /\ mountStage = "constructed"
    /\ fetchLog = [succeeded |-> 0, failed |-> 0]

NoRun == [model |-> "none"]
NoForecasts == << >>

\* ---------------------------------------------- the models as functions
InitModels ==
    /\ historicalData \in ValidSeries
    /\ forecastHorizon \in 0..MaxHorizon
    /\ modelRun = NoRun
    /\ forecastData = NoForecasts
    /\ isLoading = FALSE
    /\ fetchCalls = 0
    /\ fetchInFlight = 0
    /\ lastCall = "none"
    /\ comparisonRows = << >>
    /\ InitTerminal

dashVars == <<historicalData, forecastData, forecastHorizon, isLoading, fetchCalls,
              fetchInFlight, lastCall, termVars, comparisonRows>>

RunARIMAGARCH ==
    /\ modelRun = NoRun
    /\ \E tape \in Tapes :
         modelRun' = [model |-> "arima", params |-> ARIMAParams,
                      result |-> generateARIMAGARCH(historicalData, forecastHorizon,
                                                    ARIMAParams, tape)]
    /\ UNCHANGED dashVars

RunLSTM ==
    /\ modelRun = NoRun
    /\ \E tape \in Tapes, lookback \in 1..MaxLookback :
         modelRun' = [model |-> "lstm", params |-> LSTMParams(lookback),
                      result |-> generateLSTM(historicalData, forecastHorizon,
                                              LSTMParams(lookback), tape)]
    /\ UNCHANGED dashVars

RunMonteCarlo ==
    /\ modelRun = NoRun
    /\ \E tape \in Tapes, simulations \in 1..MaxSims :
         modelRun' = [model |-> "monteCarlo", params |-> MonteCarloParams(simulations),
                      result |-> generateMonteCarlo(historicalData, forecastHorizon,
                                                    MonteCarloParams(simulations), tape)]
    /\ UNCHANGED dashVars

RunBlackScholes ==
    /\ modelRun = NoRun
    /\ \E tape \in Tapes :
         modelRun' = [model |-> "blackScholes", params |-> BlackScholesParams,
                      result |-> generateBlackScholes(historicalData, forecastHorizon,
                                                      BlackScholesParams, tape)]
    /\ UNCHANGED dashVars

RunJumpDiffusion ==
    /\ modelRun = NoRun
    /\ \E tape \in Tapes :
         modelRun' = [model |-> "jumpDiffusion", params |-> JumpDiffusionParams,
                      result |-> generateJumpDiffusion(historicalData, forecastHorizon,
                                                       JumpDiffusionParams, tape)]
    /\ UNCHANGED dashVars

RunMarkov ==
    /\ modelRun = NoRun
    /\ \E tape \in Tapes :
         modelRun' = [model |-> "markov", params |-> MarkovParams,
                      result |-> generateMarkov(historicalData, forecastHorizon,
                                                MarkovParams, tape)]
    /\ UNCHANGED dashVars

RunVAR ==
    /\ modelRun = NoRun
    /\ \E tape \in Tapes :
         modelRun' = [model |-> "var", params |-> VARParams,
                      result |-> generateVAR(historicalData, forecastHorizon,
                                             VARParams, tape)]
    /\ UNCHANGED dashVars

NextModels ==
    \/ RunARIMAGARCH
    \/ RunLSTM
    \/ RunMonteCarlo
    \/ RunBlackScholes
    \/ RunJumpDiffusion
    \/ RunMarkov
    \/ RunVAR

SpecModels == InitModels /\ [][NextModels]_vars

HasRun == modelRun.model # "none"
Completed == HasRun /\ ~modelRun.result.threw
RunForecast == modelRun.result.forecast
LastPrice == historicalData[Len(historicalData)].price

\* C1: every forecast point of every model has lowerBound <= price <= upperBound
C1_BoundsOrdered ==
    HasRun =>
        /\ ~modelRun.result.threw
        /\ \A i \in 1..Len(RunForecast) :
              /\ FLe(RunForecast[i].lowerBound, RunForecast[i].price)
              /\ FLe(RunForecast[i].price, RunForecast[i].upperBound)

\* C2: each model returns exactly horizon forecast points
C2_LengthIsHorizon ==
    HasRun => ~modelRun.result.threw /\ Len(RunForecast) = forecastHorizon

C2_Witness ==
    /\ Completed
    /\ modelRun.model = "var"
    /\ forecastHorizon = MaxHorizon
    /\ Len(RunForecast) = MaxHorizon

\* C3: every point's price, upperBound and lowerBound is a defined number,
\* also for a series of length 1
C3_PointsAreNumbers ==
    HasRun =>
        /\ ~modelRun.result.threw
        /\ \A i \in 1..Len(RunForecast) :
              /\ IsDefinedNumber(RunForecast[i].price)
              /\ IsDefinedNumber(RunForecast[i].upperBound)
              /\ IsDefinedNumber(RunForecast[i].lowerBound)

\* C4: with fewer points than the lookback, generateLSTM does not raise and
\* every forecast price is the last historical price
C4_LSTMFlatFallback ==
    (HasRun /\ modelRun.model = "lstm"
        /\ Len(historicalData) < modelRun.params.lookback) =>
        /\ ~modelRun.result.threw
        /\ Len(RunForecast) = forecastHorizon
        /\ \A i \in 1..Len(RunForecast) : RunForecast[i].price = LastPrice

C4_Witness ==
    /\ Completed
    /\ modelRun.model = "lstm"
    /\ Len(historicalData) = 2
    /\ Len(historicalData) < modelRun.params.lookback
    /\ historicalData[1].price # historicalData[2].price
    /\ Len(RunForecast) = MaxHorizon
    /\ RunForecast[MaxHorizon].price = LastPrice

\* ------------------------------------------- the forecasting dashboard
\* what the price API may return in histData.data: prices, or null elements
DashItems == {Item(I(1)), Item(I(2)), NullItem}
DashSeries == SeqsUpTo(DashItems, DashMaxLen)

\* one call of generateForecasts draws every Math.random() value alike
DashTapes == {<<r>> : r \in Rand}

\* the horizon select offers positive horizons only (7 .. 90 days)
HorizonOptions == 1..MaxHorizon

\* modelParams; the simulation count 1000 is bounded by MaxSims
ModelParams ==
    [arima |-> ARIMAParams, lstm |-> LSTMParams(60),
     monteCarlo |-> MonteCarloParams(MaxSims), blackScholes |-> BlackScholesParams,
     jumpDiffusion |-> JumpDiffusionParams, markov |-> MarkovParams,
     var |-> VARParams]

\* one assignment of the try block: forecasts[id] = generate...(...)
RunModel(id, data, horizon, tape) ==
    CASE id = "arima" -> generateARIMAGARCH(data, horizon, ModelParams.arima, tape)
      [] id = "lstm" -> generateLSTM(data, horizon, ModelParams.lstm, tape)
      [] id = "monteCarlo" -> generateMonteCarlo(data, horizon, ModelParams.monteCarlo, tape)
      [] id = "blackScholes" ->
            generateBlackScholes(data, horizon, ModelParams.blackScholes, tape)
      [] id = "jumpDiffusion" ->
            generateJumpDiffusion(data, horizon, ModelParams.jumpDiffusion, tape)
      [] id = "markov" -> generateMarkov(data, horizon, ModelParams.markov, tape)
      [] id = "var" -> generateVAR(data, horizon, ModelParams.var, tape)

\* some assignment of the try block raises
TryThrows(data, horizon, tape) ==
    \E id \in ModelIds : RunModel(id, data, horizon, tape).threw

\* variant: the catch block clears forecastData
generateForecasts_ClearOnError(prevForecastData, prevIsLoading, data, horizon, tape) ==
    IF Len(data) = 0
    THEN [forecastData |-> prevForecastData, isLoading |-> prevIsLoading,
          lastCall |-> "skipped"]
    ELSE IF TryThrows(data, horizon, tape)
    THEN [forecastData |-> NoForecasts, isLoading |-> FALSE, lastCall |-> "caught"]
    ELSE [forecastData |-> [id \in ModelIds |-> RunModel(id, data, horizon, tape)],
          isLoading |-> FALSE, lastCall |-> "completed"]

\* generateForecasts: the state it leaves, from the state it is called in
generateForecasts(prevForecastData, prevIsLoading, data, horizon, tape) ==
    IF Len(data) = 0
    THEN [forecastData |-> prevForecastData, isLoading |-> prevIsLoading,
          lastCall |-> "skipped"]
    ELSE IF TryThrows(data, horizon, tape)
    THEN [forecastData |-> prevForecastData, isLoading |-> FALSE, lastCall |-> "caught"]
    ELSE [forecastData |-> [id \in ModelIds |-> RunModel(id, data, horizon, tape)],
          isLoading |-> FALSE, lastCall |-> "completed"]

\* the effect on [historicalData, generateForecasts]
ForecastEffect(prevForecastData, prevIsLoading, data, horizon, tape) ==
    IF Len(data) > 0
    THEN generateForecasts(prevForecastData, prevIsLoading, data, horizon, tape)
    ELSE [forecastData |-> prevForecastData, isLoading |-> prevIsLoading,
          lastCall |-> "none"]

InitForecast ==
    /\ historicalData = << >>
    /\ forecastData = NoForecasts
    /\ forecastHorizon = MaxHorizon
    /\ isLoading = FALSE
    /\ fetchCalls = 0
    /\ fetchInFlight = 0
    /\ lastCall = "none"
    /\ modelRun = NoRun
    /\ comparisonRows = << >>
    /\ InitTerminal

\* fetchData up to its first await
FetchDataCall ==
    /\ fetchCalls < MaxFetchCalls
    /\ fetchCalls' = fetchCalls + 1
    /\ fetchInFlight' = fetchInFlight + 1
    /\ isLoading' = TRUE
    /\ lastCall' = "none"
    /\ UNCHANGED <<historicalData, forecastData, forecastHorizon, modelRun, termVars, comparisonRows>>

\* both responses arrive: setHistoricalData(histData.data || []), the finally
\* block, then the effect on the new historicalData
FetchDataResolve ==
    /\ fetchInFlight > 0
    /\ fetchInFlight' = fetchInFlight - 1
    /\ \E data \in DashSeries, tape \in DashTapes :
         \E after \in {ForecastEffect(forecastData, FALSE, data, forecastHorizon, tape)} :
            /\ historicalData' = data
            /\ forecastData' = after.forecastData
            /\ isLoading' = after.isLoading
            /\ lastCall' = after.lastCall
    /\ UNCHANGED <<forecastHorizon, fetchCalls, modelRun, termVars, comparisonRows>>

\* a fetch or a json() call rejects: the catch and the finally block
FetchDataReject ==
    /\ fetchInFlight > 0
    /\ fetchInFlight' = fetchInFlight - 1
    /\ isLoading' = FALSE
    /\ lastCall' = "none"
    /\ UNCHANGED <<historicalData, forecastData, forecastHorizon, fetchCalls, modelRun, termVars, comparisonRows>>

\* the horizon select: setForecastHorizon, then the effect re-runs because
\* generateForecasts is a new callback
SetForecastHorizon ==
    /\ \E h \in HorizonOptions \ {forecastHorizon}, tape \in DashTapes :
         \E after \in {ForecastEffect(forecastData, isLoading, historicalData, h, tape)} :
            /\ forecastHorizon' = h
            /\ forecastData' = after.forecastData
            /\ isLoading' = after.isLoading
            /\ lastCall' = after.lastCall
    /\ UNCHANGED <<historicalData, fetchCalls, fetchInFlight, modelRun, termVars, comparisonRows>>

\* the button (disabled while isLoading) calls generateForecasts
ClickGenerate ==
    /\ ~isLoading
    /\ \E tape \in DashTapes :
         \E after \in {generateForecasts(forecastData, isLoading, historicalData,
                                          forecastHorizon, tape)} :
            /\ forecastData' = after.forecastData
            /\ isLoading' = after.isLoading
            /\ lastCall' = after.lastCall
    /\ UNCHANGED <<historicalData, forecastHorizon, fetchCalls, fetchInFlight, modelRun, termVars, comparisonRows>>

NextForecast ==
    \/ FetchDataCall
    \/ FetchDataResolve
    \/ FetchDataReject
    \/ SetForecastHorizon
    \/ ClickGenerate

SpecForecast == InitForecast /\ [][NextForecast]_vars

\* C5: generateForecasts never propagates an exception; when a model throws,
\* forecastData keeps its value and isLoading ends false; forecastData is only
\* replaced by a result set of all seven models; with an empty series the
\* call changes no state
C5_GenerateForecastsContained ==
    [][ /\ lastCall' \in {"none", "skipped", "caught", "completed"}
        /\ (lastCall' = "caught" =>
               forecastData' = forecastData /\ isLoading' = FALSE)
        /\ (forecastData' # forecastData =>
               /\ lastCall' = "completed"
               /\ DOMAIN forecastData' = ModelIds
               /\ \A m \in ModelIds : ~forecastData'[m].threw)
        /\ (lastCall' = "skipped" =>
               UNCHANGED <<historicalData, forecastData, forecastHorizon, isLoading>>)
      ]_vars

C5_Witness ==
    /\ lastCall = "caught"
    /\ \E i \in 1..Len(historicalData) : IsNullItem(historicalData[i])
    /\ DOMAIN forecastData = ModelIds
    /\ isLoading = FALSE

\* ------------------------------------------------ terminal dashboard data
LongLen == 27         \* length of the long series given to the indicators
MaxPeriod == 2        \* longest pattern repeated to make a long series
JitterLen == 2        \* longest series enhanced under every tape of draws

\* a price point as the price API supplies it: no OHLC, no averages
BareItem(p) ==
    [price |-> p, high |-> Undefined, low |-> Undefined, open |-> Undefined,
     close |-> Undefined, change |-> Undefined, sma_20 |-> Undefined,
     ema_12 |-> Undefined, ema_26 |-> Undefined]

ItemPrices(data) == [i \in 1..Len(data) |-> data[i].price]

RECURSIVE EMAFrom(_, _, _)
\* the loop of calculateEMA: the next index to fill is ema.length
EMAFrom(prices, multiplier, ema) ==
    IF Len(ema) >= Len(prices) THEN ema
    ELSE EMAFrom(prices, multiplier,
                 Append(ema, FAdd(FMul(prices[Len(ema) + 1], multiplier),
                                  FMul(ema[Len(ema)], FSub(I(1), multiplier)))))

calculateEMA(prices, period) ==
    EMAFrom(prices, FDiv(I(2), I(period + 1)), <<At(prices, 0)>>)

\* Math.random() calls made before the item at index: three for the first
\* item (high, low, volume), four for every later one (high, low, open, volume)
DrawBase(index) == IF index = 0 THEN 0 ELSE 3 + 4 * (index - 1)

\* const priceVariation = item.price * 0.01
PriceVariation(item) == FMul(item.price, Num(100))

SimulatedHigh(data, index, tape) ==
    FAdd(data[index + 1].price,
         FMul(Rnd(tape, DrawBase(index)), PriceVariation(data[index + 1])))

SimulatedLow(data, index, tape) ==
    FSub(data[index + 1].price,
         FMul(Rnd(tape, DrawBase(index) + 1), PriceVariation(data[index + 1])))

SimulatedOpen(data, index, tape) ==
    IF index >= 1
    THEN FAdd(data[index].price,
              FMul(FSub(Rnd(tape, DrawBase(index) + 2), Num(5000)),
                   PriceVariation(data[index + 1])))
    ELSE data[index + 1].price

ItemChange(data, index) ==
    IF index >= 1
    THEN FMul(FDiv(FSub(data[index + 1].price, data[index].price),
                   data[index].price), I(100))
    ELSE Num(0)

ItemSMA20(data, index) ==
    IF index >= 19
    THEN FDiv(FSum(ItemPrices(Slice(data, index - 19, index + 1))), I(20))
    ELSE Null

ItemEMA_Window(data, index, period) ==
    IF index >= period - 1
    THEN At(calculateEMA(ItemPrices(Slice(data, index - period + 1, index + 1)), period),
            period - 1)
    ELSE Null

ItemEMA(data, index, period) ==
    IF index >= period - 1
    THEN At(calculateEMA(ItemPrices(Slice(data, 0, index + 1)), period), index)
    ELSE Null

\* the record the map builds (timestamp, displayDate and volume are display
\* values no computation reads; volume still takes its draw from the tape)
EnhancedRecord_Unclamped(price, high, low, open, change, sma, ema12, ema26) ==
    [price |-> price, high |-> high, low |-> low, open |-> open, close |-> price,
     change |-> change, sma_20 |-> sma, ema_12 |-> ema12, ema_26 |-> ema26]

EnhancedRecord(price, high, low, open, change, sma, ema12, ema26) ==
    [price |-> price, high |-> FMax2(FMax2(high, price), open),
     low |-> FMin2(FMin2(low, price), open), open |-> open, close |-> price,
     change |-> change, sma_20 |-> sma, ema_12 |-> ema12, ema_26 |-> ema26]

EnhanceItem(data, index, tape) ==
    EnhancedRecord(data[index + 1].price, SimulatedHigh(data, index, tape),
                   SimulatedLow(data, index, tape),
                   SimulatedOpen(data, index, tape), ItemChange(data, index),
                   ItemSMA20(data, index), ItemEMA(data, index, 12),
                   ItemEMA(data, index, 26))

HasPrice(item) == ~(item.price.k \in {"null", "undef"})

\* data.data.map(...).filter(item => item.price !== null && item.price !== undefined)
EnhanceData(data, tape) ==
    SelectSeq([i \in 1..Len(data) |-> EnhanceItem(data, i - 1, tape)], HasPrice)

\* ------------------------------------------------------------ technicalData
\* historicalData.slice(Math.max(0, index - period + 1), index + 1) with
\* period = Math.min(14, index + 1)
IndicatorWindow(hd, index) ==
    Slice(hd, IF index >= 13 THEN index - 13 ELSE 0, index + 1)

\* prices[i].price - prices[i-1].price for i = 1 .. prices.length - 1
WindowChanges(prices) ==
    [i \in 1..(Len(prices) - 1) |-> FSub(prices[i + 1].price, prices[i].price)]

IsGain(change) == FGt(change, Num(0))
IsLoss(change) == ~IsGain(change)

Gains(prices) == SelectSeq(WindowChanges(prices), IsGain)

Losses(prices) ==
    [i \in 1..Len(SelectSeq(WindowChanges(prices), IsLoss)) |->
        FAbs(SelectSeq(WindowChanges(prices), IsLoss)[i])]

\* xs.length ? xs.reduce((a, b) => a + b, 0) / xs.length : 0
AverageOrZero(xs) == IF Len(xs) > 0 THEN FDiv(FSum(xs), I(Len(xs))) ELSE Num(0)

RelativeStrength_NoGuard(avgGain, avgLoss) == FDiv(avgGain, avgLoss)

RelativeStrength(avgGain, avgLoss) ==
    IF StrictEq(avgLoss, Num(0)) THEN I(100) ELSE FDiv(avgGain, avgLoss)

RSIFromRS_NoOnePlus(rs) == FSub(I(100), FDiv(I(100), rs))

RSIFromRS(rs) == FSub(I(100), FDiv(I(100), FAdd(I(1), rs)))

enhancedRSI(hd, index) ==
    RSIFromRS(RelativeStrength(AverageOrZero(Gains(IndicatorWindow(hd, index))),
                               AverageOrZero(Losses(IndicatorWindow(hd, index)))))

\* Math.max(...prices.map(p => p.high || p.price))
High14(prices) ==
    FMaxOf([i \in 1..Len(prices) |-> OrElse(prices[i].high, prices[i].price)])

\* Math.min(...prices.map(p => p.low || p.price))
Low14(prices) ==
    FMinOf([i \in 1..Len(prices) |-> OrElse(prices[i].low, prices[i].price)])

StochKOf_NoGuard(price, high14, low14) ==
    FMul(FDiv(FSub(price, low14), FSub(high14, low14)), I(100))

StochKOf(price, high14, low14) ==
    IF StrictEq(low14, high14) THEN I(50)
    ELSE FMul(FDiv(FSub(price, low14), FSub(high14, low14)), I(100))

\* stochK of the item at index; the stochD reducer recomputes the same
\* expression as itemStochK
stochK(hd, index) ==
    StochKOf(hd[index + 1].price, High14(IndicatorWindow(hd, index)),
             Low14(IndicatorWindow(hd, index)))

WilliamsROf_FromLow(price, high14, low14) ==
    IF StrictEq(low14, high14) THEN I(-50)
    ELSE FMul(FDiv(FSub(price, low14), FSub(high14, low14)), I(-100))

WilliamsROf(price, high14, low14) ==
    IF StrictEq(low14, high14) THEN I(-50)
    ELSE FMul(FDiv(FSub(high14, price), FSub(high14, low14)), I(-100))

williamsR(hd, index) ==
    WilliamsROf(hd[index + 1].price, High14(IndicatorWindow(hd, index)),
                Low14(IndicatorWindow(hd, index)))

stochD_FromIndex2(hd, index) ==
    IF index >= 2
    THEN FDiv(FSum([i \in 1..3 |-> stochK(hd, index - 3 + i)]), I(3))
    ELSE stochK(hd, index)

stochD(hd, index) ==
    IF index >= 3
    THEN FDiv(FSum([i \in 1..3 |-> stochK(hd, index - 3 + i)]), I(3))
    ELSE stochK(hd, index)

TypicalPrice(item) ==
    FDiv(FAdd(FAdd(item.price, OrElse(item.high, item.price)),
              OrElse(item.low, item.price)), I(3))

WindowSMA(prices) == FDiv(FSum(ItemPrices(prices)), I(Len(prices)))

MeanDeviationOf(prices, sma) ==
    FDiv(FSum([i \in 1..Len(prices) |-> FAbs(FSub(prices[i].price, sma))]),
         I(Len(prices)))

CCIOf(typicalPrice, sma, meanDeviation) ==
    IF StrictEq(meanDeviation, Num(0)) THEN Num(0)
    ELSE FDiv(FSub(typicalPrice, sma), FMul(Num(150), meanDeviation))

cci(hd, index) ==
    CCIOf(TypicalPrice(hd[index + 1]), WindowSMA(IndicatorWindow(hd, index)),
          MeanDeviationOf(IndicatorWindow(hd, index),
                          WindowSMA(IndicatorWindow(hd, index))))

momentum(hd, index) ==
    IF index >= 10
    THEN FMul(FDiv(FSub(hd[index + 1].price, hd[index - 9].price),
                   hd[index - 9].price), I(100))
    ELSE Num(0)

TechnicalItem(hd, index) ==
    [enhancedRSI |-> enhancedRSI(hd, index), stochK |-> stochK(hd, index),
     stochD |-> stochD(hd, index), williamsR |-> williamsR(hd, index),
     cci |-> cci(hd, index), momentum |-> momentum(hd, index)] @@ hd[index + 1]

technicalDataOf_DropFirst(hd) ==
    IF Len(hd) = 0 THEN << >>
    ELSE [i \in 1..(Len(hd) - 1) |-> TechnicalItem(hd, i)]

technicalDataOf(hd) ==
    IF Len(hd) = 0 THEN << >>
    ELSE [i \in 1..Len(hd) |-> TechnicalItem(hd, i - 1)]

\* ----------------------------------------------------------------- macdData
HasEMAs(item) == Truthy(item.ema_12) /\ Truthy(item.ema_26)

MacdLine(item) == FSub(item.ema_12, item.ema_26)

\* d => d.ema_12 && d.ema_26 ? d.ema_12 - d.ema_26 : 0
MacdValue(d) == IF HasEMAs(d) THEN MacdLine(d) ELSE Num(0)

NotZero(v) == ~StrictEq(v, Num(0))

MacdValues(hd, index) ==
    SelectSeq([i \in 1..Len(Slice(hd, IF index >= 8 THEN index - 8 ELSE 0, index + 1)) |->
                  MacdValue(Slice(hd, IF index >= 8 THEN index - 8 ELSE 0, index + 1)[i])],
              NotZero)

SignalLine(macdValues, macdLine) ==
    IF Len(macdValues) >= 9
    THEN At(calculateEMA(macdValues, 9), Len(macdValues) - 1)
    ELSE macdLine

MacdRecord(item, macdLine, signalLine) ==
    [macd |-> macdLine, signal |-> signalLine,
     histogram |-> FSub(macdLine, signalLine)] @@ item

MacdItem(hd, index) ==
    IF HasEMAs(hd[index + 1])
    THEN MacdRecord(hd[index + 1], MacdLine(hd[index + 1]),
                    SignalLine(MacdValues(hd, index), MacdLine(hd[index + 1])))
    ELSE [macd |-> Null, signal |-> Null, histogram |-> Null] @@ hd[index + 1]

macdDataOf(hd) ==
    IF Len(hd) = 0 THEN << >>
    ELSE [i \in 1..Len(hd) |-> MacdItem(hd, i - 1)]

\* ------------------------------------------------------- portfolioAnalytics
SQRT252 == Num(158745)

\* (technicalData[i].price - technicalData[i-1].price) / technicalData[i-1].price
SimpleReturns(td) ==
    [i \in 1..(Len(td) - 1) |->
        FDiv(FSub(td[i + 1].price, td[i].price), td[i].price)]

ReturnsMean(returns) == FDiv(FSum(returns), I(Len(returns)))

SquaredDeviations(returns, mean) ==
    [i \in 1..Len(returns) |->
        FMul(FSub(returns[i], mean), FSub(returns[i], mean))]

ReturnsVariance(returns, mean) ==
    FDiv(FSum(SquaredDeviations(returns, mean)), I(Len(returns)))

AnnualizedVolatility(returns) ==
    FMul(FSqrt(ReturnsVariance(returns, ReturnsMean(returns))), SQRT252)

\* sortedReturns[Math.floor(returns.length * pct / 100)] || 0
ValueAtRisk(returns, pct) ==
    OrElse(At(SortAsc(returns), FloorPct(Len(returns), pct)), Num(0))

ConditionalVaR5(returns) ==
    IF FloorPct(Len(returns), 5) > 0
    THEN FDiv(FSum(Slice(SortAsc(returns), 0, FloorPct(Len(returns), 5))),
              I(FloorPct(Len(returns), 5)))
    ELSE Num(0)

DrawdownFromPeak(peak, price) == FDiv(FSub(peak, price), peak)

RECURSIVE DrawdownLoop(_, _, _, _)
RECURSIVE DrawdownStep(_, _, _, _)
\* for (const data of technicalData): i is the 1-based position of data;
\* if (data.price > peak) peak = data.price
DrawdownLoop(td, i, peak, maxDrawdown) ==
    IF i > Len(td) THEN maxDrawdown
    ELSE IF FGt(td[i].price, peak) THEN DrawdownStep(td, i, td[i].price, maxDrawdown)
    ELSE DrawdownStep(td, i, peak, maxDrawdown)

\* if (drawdown > maxDrawdown) maxDrawdown = drawdown
DrawdownStep(td, i, peak, maxDrawdown) ==
    IF FGt(DrawdownFromPeak(peak, td[i].price), maxDrawdown)
    THEN DrawdownLoop(td, i + 1, peak, DrawdownFromPeak(peak, td[i].price))
    ELSE DrawdownLoop(td, i + 1, peak, maxDrawdown)

MaxDrawdownOf_PeakFromLast(td) == DrawdownLoop(td, 1, td[Len(td)].price, Num(0))

MaxDrawdownOf(td) == DrawdownLoop(td, 1, td[1].price, Num(0))

\* (mean * 252) - riskFreeRate with riskFreeRate = 0.02
ExcessReturn(returns) == FSub(FMul(ReturnsMean(returns), I(252)), Num(200))

SharpeRatioOf_NoGuard(excessReturn, volatility) == FDiv(excessReturn, volatility)

SharpeRatioOf(excessReturn, volatility) ==
    IF StrictEq(volatility, Num(0)) THEN Num(0) ELSE FDiv(excessReturn, volatility)

Downside(returns, mean) ==
    SelectSeq(returns, LAMBDA r : FLt(r, mean))

DownsideDeviation(returns, mean) ==
    IF Len(Downside(returns, mean)) > 0
    THEN FMul(FSqrt(FDiv(FSum(SquaredDeviations(Downside(returns, mean), mean)),
                         I(Len(Downside(returns, mean))))), SQRT252)
    ELSE Num(0)

SortinoRatioOf(excessReturn, downsideDeviation) ==
    IF StrictEq(downsideDeviation, Num(0)) THEN Num(0)
    ELSE FDiv(excessReturn, downsideDeviation)

CalmarRatioOf(mean, maxDrawdown) ==
    IF StrictEq(maxDrawdown, Num(0)) THEN Num(0)
    ELSE FDiv(FMul(FMul(mean, I(252)), I(100)), FMul(maxDrawdown, I(100)))

AnalyticsOf(returns, maxDrawdown) ==
    [volatility |-> FMul(AnnualizedVolatility(returns), I(100)),
     var1 |-> FMul(ValueAtRisk(returns, 1), I(100)),
     var5 |-> FMul(ValueAtRisk(returns, 5), I(100)),
     var10 |-> FMul(ValueAtRisk(returns, 10), I(100)),
     cvar5 |-> FMul(ConditionalVaR5(returns), I(100)),
     maxDrawdown |-> FMul(maxDrawdown, I(100)),
     sharpeRatio |-> SharpeRatioOf(ExcessReturn(returns), AnnualizedVolatility(returns)),
     sortinoRatio |-> SortinoRatioOf(ExcessReturn(returns),
                                     DownsideDeviation(returns, ReturnsMean(returns))),
     calmarRatio |-> CalmarRatioOf(ReturnsMean(returns), maxDrawdown)]

portfolioAnalyticsOf(td) ==
    IF Len(td) = 0 THEN EmptyAnalytics
    ELSE AnalyticsOf(SimpleReturns(td), MaxDrawdownOf(td))

\* ------------------------------------------- the indicators as functions
\* price sequences: every short one; every pattern of at most MaxPeriod
\* prices repeated to LongLen; rising, falling and stepped ramps (a long ramp
\* holds every shorter ramp as a prefix, and the record at an index depends
\* on the prefix alone)
ShortPrices == SeqsUpTo(Prices, MaxLen) \ {<< >>}

Repeated(base, n) == [i \in 1..n |-> base[((i - 1) % Len(base)) + 1]]

RampUp(step, n) == [i \in 1..n |-> I(1 + step * (i - 1))]
RampDown(step, n) == [i \in 1..n |-> I(1 + step * (n - i))]
Stairs(n) == [i \in 1..n |-> I(1 + (i \div 2))]

RampLens == {MaxLen + 1, LongLen}

\* the ten-point series 100, 102, 101, 105, 103, 108, 110, 107, 112, 115
TenPointSeries ==
    <<I(100), I(102), I(101), I(105), I(103), I(108), I(110), I(107), I(112), I(115)>>

\* series long enough for nine MACD values (index 33 and later): 34 points
\* at 100 followed by 110, and the prices 1, 2, ..., 35
FlatThenJump == [i \in 1..35 |-> IF i <= 34 THEN I(100) ELSE I(110)]
SignalSeries == {FlatThenJump, RampUp(1, 35)}

LongPrices ==
    {Repeated(base, LongLen) : base \in SeqsUpTo({I(1), I(MaxPrice)}, MaxPeriod) \ {<< >>}}
    \cup {RampUp(step, n) : step \in 1..2, n \in RampLens}
    \cup {RampDown(step, n) : step \in 1..2, n \in RampLens}
    \cup {Stairs(n) : n \in RampLens}
    \cup {TenPointSeries}
    \cup SignalSeries

\* the thirty-point series of constant price 50000, counted in thousands:
\* the sums, differences and quotients the memos take of it are exact in
\* float64 at either magnitude
FlatPrice == I(50)
FlatSeries == Repeated(<<FlatPrice>>, 30)

IndicatorPrices == ShortPrices \cup LongPrices \cup {FlatSeries}

\* upstream series whose prices are not all positive numbers: a negative
\* price, a zero price and a null price among the valid ones
UpstreamValues == {I(1), I(MaxPrice), I(-2), Num(0), Null}
UpstreamPrices == SeqsUpTo(UpstreamValues, 2) \ {<< >>}

\* the draws that jitter the simulated OHLC: every tape for the shortest
\* series, a constant draw for the others
JitterInputs ==
    (((SeqsUpTo(Prices, JitterLen) \ {<< >>}) \cup UpstreamPrices) \X Tapes)
    \cup ((ShortPrices \cup LongPrices) \X DashTapes)

BareSeries(prices) == [i \in 1..Len(prices) |-> BareItem(prices[i])]

\* a point whose high, low and close all equal its price
DojiItem(p) == [BareItem(p) EXCEPT !.high = p, !.low = p, !.close = p]

DojiSeries(prices) == [i \in 1..Len(prices) |-> DojiItem(prices[i])]

\* a render with historicalData = hd: the three memos are recomputed
SetHistoricalData(hd) ==
    /\ terminalData' = hd
    /\ technicalData' = technicalDataOf(hd)
    /\ macdData' = macdDataOf(hd)
    /\ portfolioAnalytics' = portfolioAnalyticsOf(technicalData')

\* fetchHistoricalData clears the series before it requests a new one
ClearHistoricalData ==
    /\ terminalData # << >>
    /\ SetHistoricalData(<< >>)
    /\ UNCHANGED <<historicalData, forecastData, forecastHorizon, isLoading,
                   fetchCalls, fetchInFlight, lastCall, modelRun, fetchVars,
                   comparisonRows>>

\* the response arrived: the series is enhanced with simulated OHLC and stored
LoadEnhancedSeries ==
    /\ terminalData = << >>
    /\ \E input \in JitterInputs :
         SetHistoricalData(EnhanceData(BareSeries(input[1]), input[2]))
    /\ UNCHANGED <<historicalData, forecastData, forecastHorizon, isLoading,
                   fetchCalls, fetchInFlight, lastCall, modelRun, fetchVars,
                   comparisonRows>>

\* the memos given a series without high/low/open and without averages
LoadBareSeries ==
    /\ terminalData = << >>
    /\ \E prices \in IndicatorPrices : SetHistoricalData(BareSeries(prices))
    /\ UNCHANGED <<historicalData, forecastData, forecastHorizon, isLoading,
                   fetchCalls, fetchInFlight, lastCall, modelRun, fetchVars,
                   comparisonRows>>

\* the memos given a series whose high and low equal the close
LoadDojiSeries ==
    /\ terminalData = << >>
    /\ \E prices \in ShortPrices \cup {FlatSeries} :
         SetHistoricalData(DojiSeries(prices))
    /\ UNCHANGED <<historicalData, forecastData, forecastHorizon, isLoading,
                   fetchCalls, fetchInFlight, lastCall, modelRun, fetchVars,
                   comparisonRows>>

NextIndicators ==
    \/ ClearHistoricalData
    \/ LoadEnhancedSeries
    \/ LoadBareSeries
    \/ LoadDojiSeries

InitIndicators == InitForecast

SpecIndicators == InitIndicators /\ [][NextIndicators]_vars

\* ------------------------------------------------- claims on the indicators
IndicatorFields == {"enhancedRSI", "stochK", "stochD", "williamsR", "cci", "momentum"}
MacdFields == {"macd", "signal", "histogram"}

\* record i carries every field of price point i, and the fields in added
CarriesPoint(records, i, added) ==
    /\ DOMAIN records[i] = DOMAIN terminalData[i] \cup added
    /\ \A f \in DOMAIN terminalData[i] : records[i][f] = terminalData[i][f]

\* C6: for a series of N points (N = 0 and N = 1 included) technicalData and
\* macdData each hold exactly N records, and record i is the record of price
\* point i: it carries that point's fields next to the computed ones
C6_OneRecordPerPoint ==
    /\ Len(technicalData) = Len(terminalData)
    /\ Len(macdData) = Len(terminalData)
    /\ \A i \in 1..Len(terminalData) :
         /\ CarriesPoint(technicalData, i, IndicatorFields)
         /\ CarriesPoint(macdData, i, MacdFields)

C6_Witness ==
    /\ Len(terminalData) = LongLen
    /\ Len(technicalData) = LongLen
    /\ macdData[1].macd = Null
    /\ macdData[LongLen].macd.k = "num"

PositivePrices(hd) == \A i \in 1..Len(hd) : FGt(hd[i].price, Num(0))

\* low <= price <= high at every point, an absent high or low being the price
LowPriceHigh(hd) ==
    \A i \in 1..Len(hd) :
        /\ FLe(OrElse(hd[i].low, hd[i].price), hd[i].price)
        /\ FLe(hd[i].price, OrElse(hd[i].high, hd[i].price))

Within0To100(x) == x.k = "num" /\ x.v >= 0 /\ x.v <= 100 * SCALE

\* C7: for positive prices with low <= price <= high, RSI, stochastic %K and
\* stochastic %D lie in [0, 100] at every index, warm-up indices and
\* zero-denominator fallbacks included
C7_OscillatorsWithin0To100 ==
    (PositivePrices(terminalData) /\ LowPriceHigh(terminalData)) =>
        \A i \in 1..Len(technicalData) :
            /\ Within0To100(technicalData[i].enhancedRSI)
            /\ Within0To100(technicalData[i].stochK)
            /\ Within0To100(technicalData[i].stochD)

C7_Witness ==
    /\ Len(technicalData) = LongLen
    /\ PositivePrices(terminalData) /\ LowPriceHigh(terminalData)
    /\ terminalData[LongLen].high.k = "num"
    /\ FLt(terminalData[LongLen].price, terminalData[LongLen].high)
    /\ technicalData[1].stochK = I(50)
    /\ technicalData[LongLen].stochK.v > 0
    /\ technicalData[LongLen].stochK.v < 100 * SCALE
    /\ technicalData[LongLen].enhancedRSI.v > 0
    /\ technicalData[LongLen].enhancedRSI.v < 99 * SCALE

StrictlyIncreasing(hd) ==
    \A i \in 1..(Len(hd) - 1) : FLt(hd[i].price, hd[i + 1].price)

\* the claim as stated: on a strictly increasing series the RSI is 100 at
\* every index whose window holds a day-over-day delta (index >= 1)
C8_RSIIs100 ==
    StrictlyIncreasing(terminalData) =>
        \A i \in 2..Len(technicalData) : technicalData[i].enhancedRSI = I(100)

\* C8 (amended): on a strictly increasing series the RSI at every index
\* whose window holds a day-over-day delta is 100 - 100/101: there is no
\* loss, avgLoss is 0 and rs takes its fallback value 100
C8_RSIIsFallbackValue ==
    StrictlyIncreasing(terminalData) =>
        \A i \in 2..Len(technicalData) :
            technicalData[i].enhancedRSI = FSub(I(100), FDiv(I(100), I(101)))

C8_Witness ==
    /\ Len(technicalData) = LongLen
    /\ StrictlyIncreasing(terminalData)
    /\ technicalData[2].enhancedRSI = Num(990100)
    /\ technicalData[LongLen].enhancedRSI = Num(990100)

HighLowAbsent(hd) ==
    \A i \in 1..Len(hd) : hd[i].high = Undefined /\ hd[i].low = Undefined

\* C9: on a strictly increasing series without high/low (both fall back to
\* the price) Williams %R is 0 at every index >= 1
C9_WilliamsRZeroOnRise ==
    (StrictlyIncreasing(terminalData) /\ HighLowAbsent(terminalData)) =>
        \A i \in 2..Len(technicalData) : technicalData[i].williamsR = Num(0)

C9_Witness ==
    /\ Len(technicalData) = LongLen
    /\ StrictlyIncreasing(terminalData) /\ HighLowAbsent(terminalData)
    /\ technicalData[1].williamsR = I(-50)
    /\ technicalData[2].williamsR = Num(0)
    /\ technicalData[LongLen].williamsR = Num(0)

NonDecreasing(hd) ==
    \A i \in 1..(Len(hd) - 1) : FLe(hd[i].price, hd[i + 1].price)

\* C10: for a series of positive prices (one point at least: the empty
\* series has no analytics) maxDrawdown is a number >= 0, and it is exactly
\* 0 when the prices never fall
C10_MaxDrawdownNonNegative ==
    (Len(terminalData) >= 1 /\ PositivePrices(terminalData)) =>
        /\ portfolioAnalytics.maxDrawdown.k = "num"
        /\ portfolioAnalytics.maxDrawdown.v >= 0
        /\ (NonDecreasing(terminalData) => portfolioAnalytics.maxDrawdown = Num(0))

C10_Witness ==
    /\ Len(terminalData) = LongLen
    /\ PositivePrices(terminalData)
    /\ NonDecreasing(terminalData)
    /\ ~StrictlyIncreasing(terminalData)
    /\ FLt(terminalData[1].price, terminalData[LongLen].price)
    /\ portfolioAnalytics.maxDrawdown = Num(0)

\* ------------------------------------------------ claims on the risk metrics
\* the values portfolioAnalytics works with before it reports them
ReturnsNow == SimpleReturns(technicalData)
DownsideNow == Downside(ReturnsNow, ReturnsMean(ReturnsNow))

IsZero(x) == StrictEq(x, Num(0))

\* C11: sharpeRatio is 0 when volatility is exactly 0, sortinoRatio is 0 when
\* the downside set is empty or the downside deviation is exactly 0, and
\* calmarRatio is 0 when maxDrawdown is exactly 0 (never NaN, infinite or
\* undefined in these cases)
C11_ZeroDenominatorRatios ==
    Len(technicalData) >= 1 =>
        /\ IsZero(AnnualizedVolatility(ReturnsNow)) =>
               portfolioAnalytics.sharpeRatio = Num(0)
        /\ (Len(DownsideNow) = 0
              \/ IsZero(DownsideDeviation(ReturnsNow, ReturnsMean(ReturnsNow)))) =>
               portfolioAnalytics.sortinoRatio = Num(0)
        /\ IsZero(portfolioAnalytics.maxDrawdown) =>
               portfolioAnalytics.calmarRatio = Num(0)

C11_Witness ==
    /\ Len(technicalData) = LongLen
    /\ IsZero(portfolioAnalytics.volatility)
    /\ Len(DownsideNow) = 0
    /\ IsZero(portfolioAnalytics.maxDrawdown)
    /\ portfolioAnalytics.sharpeRatio = Num(0)
    /\ portfolioAnalytics.sortinoRatio = Num(0)
    /\ portfolioAnalytics.calmarRatio = Num(0)

AnalyticsFields ==
    {"volatility", "var1", "var5", "var10", "cvar5", "maxDrawdown",
     "sharpeRatio", "sortinoRatio", "calmarRatio"}

\* C12: for a series of fewer than 2 points (0 or 1) every risk metric is
\* either 0 or undefined
C12_ShortSeriesZeroOrUndefined ==
    Len(terminalData) < 2 =>
        \A f \in AnalyticsFields : portfolioAnalytics[f] \in {Num(0), Undefined}

\* ------------------------------------------------------- claims on the EMA
\* the periods calculateEMA is called with: the MACD signal, ema_12, ema_26
EMAPeriods == {9, 12, 26}

\* calculateEMA run once over the whole series, read at the 0-based index
FullRunEMA(hd, period, index) == At(calculateEMA(ItemPrices(hd), period), index)

\* calculateEMA run from scratch over the prefix [0..index], read at index
PrefixRunEMA(hd, period, index) ==
    At(calculateEMA(ItemPrices(Slice(hd, 0, index + 1)), period), index)

HasAverages(hd) == \A i \in 1..Len(hd) : hd[i].sma_20 # Undefined

\* C13: for every series, period and index the EMA at the index from one run
\* over the full series equals the EMA from a run over the prefix [0..index],
\* and the stored ema_12 / ema_26 (made from prefixes) are the full run's
\* values at the indices where they are reported
C13_EMAPrefixEqualsFullRun ==
    \A period \in EMAPeriods :
        LET fullRun == calculateEMA(ItemPrices(terminalData), period) IN
        \A i \in 1..Len(terminalData) :
            /\ PrefixRunEMA(terminalData, period, i - 1) = At(fullRun, i - 1)
            /\ (HasAverages(terminalData) /\ period = 12 /\ i >= 12) =>
                   terminalData[i].ema_12 = At(fullRun, i - 1)
            /\ (HasAverages(terminalData) /\ period = 26 /\ i >= 26) =>
                   terminalData[i].ema_26 = At(fullRun, i - 1)

C13_Witness ==
    /\ Len(terminalData) = LongLen
    /\ HasAverages(terminalData)
    /\ StrictlyIncreasing(terminalData)
    /\ terminalData[12].ema_12 = FullRunEMA(terminalData, 12, 11)
    /\ terminalData[LongLen].ema_26 = FullRunEMA(terminalData, 26, LongLen - 1)
    /\ FLt(terminalData[LongLen].ema_26, terminalData[LongLen].ema_12)

\* ------------------------------------------- claims on the ten-point series
IsTenPointSeries == ItemPrices(terminalData) = TenPointSeries

NotANumber(x) == x \in {Null, Undefined}

\* the claim as stated: on the ten-point series sma_20 and ema_26 are
\* undefined at every index, stochD is its fallback (stochK) at every index,
\* and RSI is a defined number from index 1 on
C14_TenPointFallbacks ==
    IsTenPointSeries =>
        \A i \in 1..10 :
            /\ NotANumber(terminalData[i].sma_20)
            /\ NotANumber(terminalData[i].ema_26)
            /\ technicalData[i].stochD = technicalData[i].stochK
            /\ (i >= 2 => technicalData[i].enhancedRSI.k = "num")

\* C14 (amended): on the ten-point series sma_20 and ema_26 are undefined at
\* every index and RSI is a defined number from index 1 on; stochD is its
\* fallback (stochK) at indices 0..2 only, and from index 3 on it is the
\* mean of the three latest stochK values
C14_TenPointFallbacksToIndex2 ==
    IsTenPointSeries =>
        \A i \in 1..10 :
            /\ NotANumber(terminalData[i].sma_20)
            /\ NotANumber(terminalData[i].ema_26)
            /\ (i <= 3 => technicalData[i].stochD = technicalData[i].stochK)
            /\ (i >= 4 => technicalData[i].stochD =
                    FDiv(FAdd(FAdd(FAdd(Num(0), technicalData[i - 2].stochK),
                                   technicalData[i - 1].stochK),
                              technicalData[i].stochK), I(3)))
            /\ (i >= 2 => technicalData[i].enhancedRSI.k = "num")

C14_Witness ==
    /\ IsTenPointSeries
    /\ terminalData[10].sma_20 = Null
    /\ terminalData[10].ema_26 = Null
    /\ technicalData[3].stochD = technicalData[3].stochK
    /\ technicalData[4].stochD # technicalData[4].stochK
    /\ technicalData[10].enhancedRSI.k = "num"

\* ------------------------------------------------ the constant-price series
HighLowAbsentOrClose(hd) ==
    \A i \in 1..Len(hd) :
        /\ hd[i].high \in {Undefined, hd[i].price}
        /\ hd[i].low \in {Undefined, hd[i].price}

IsFlatSeries ==
    /\ ItemPrices(terminalData) = FlatSeries
    /\ HighLowAbsentOrClose(terminalData)

\* C15: on thirty points of constant price 50000 with high/low absent or
\* equal to the close, volatility, var1, var5, var10, cvar5, sharpeRatio and
\* maxDrawdown are 0 and at every index cci = 0, williamsR = -50, stochK = 50
C15_FlatSeriesDegenerates ==
    IsFlatSeries =>
        /\ \A f \in {"volatility", "var1", "var5", "var10", "cvar5",
                     "sharpeRatio", "maxDrawdown"} :
               portfolioAnalytics[f] = Num(0)
        /\ Len(technicalData) = 30
        /\ \A i \in 1..Len(technicalData) :
               /\ technicalData[i].cci = Num(0)
               /\ technicalData[i].williamsR = I(-50)
               /\ technicalData[i].stochK = I(50)

C15_Witness ==
    /\ IsFlatSeries
    /\ terminalData[30].high = FlatPrice
    /\ terminalData[30].low = FlatPrice
    /\ portfolioAnalytics.volatility = Num(0)
    /\ portfolioAnalytics.cvar5 = Num(0)
    /\ technicalData[30].stochK = I(50)

\* ------------------------------------- Black-Scholes on its own input family
\* the scenario of the model's defaults: price 50000 and a 30-day horizon
ScenarioPrice == I(50000)
ScenarioHorizon == 30

BlackScholesSeries ==
    {[i \in 1..Len(ps) |-> Item(ps[i])] :
        ps \in SeqsUpTo(Prices \cup {ScenarioPrice}, 2) \ {<< >>}}

InitBlackScholes ==
    /\ historicalData \in BlackScholesSeries
    /\ forecastHorizon \in (0..MaxHorizon) \cup {ScenarioHorizon}
    /\ modelRun = NoRun
    /\ forecastData = NoForecasts
    /\ isLoading = FALSE
    /\ fetchCalls = 0
    /\ fetchInFlight = 0
    /\ lastCall = "none"
    /\ comparisonRows = << >>
    /\ InitTerminal

SpecBlackScholes == InitBlackScholes /\ [][RunBlackScholes]_vars

\* C16: every Black-Scholes point has price > 0, upperBound = 1.2 * price
\* and lowerBound = 0.8 * price, for every positive current price and every
\* sequence of draws
C16_BlackScholesBand ==
    (modelRun.model = "blackScholes" /\ ~modelRun.result.threw) =>
        \A i \in 1..Len(modelRun.result.forecast) :
            LET point == modelRun.result.forecast[i] IN
            /\ FGt(point.price, Num(0))
            /\ point.upperBound = FMul(point.price, Num(12000))
            /\ point.lowerBound = FMul(point.price, Num(8000))
            /\ FLt(point.lowerBound, point.price)
            /\ FLt(point.price, point.upperBound)

C16_Witness ==
    /\ modelRun.model = "blackScholes"
    /\ historicalData[Len(historicalData)].price = ScenarioPrice
    /\ forecastHorizon = ScenarioHorizon
    /\ Len(modelRun.result.forecast) = ScenarioHorizon
    /\ FLt(modelRun.result.forecast[ScenarioHorizon].price, ScenarioPrice)
    /\ modelRun.result.forecast[ScenarioHorizon].upperBound
           = FMul(modelRun.result.forecast[ScenarioHorizon].price, Num(12000))

\* ------------------------------------------- Monte Carlo with one simulation
SingleSimulation ==
    /\ modelRun.model = "monteCarlo"
    /\ modelRun.params.simulations = 1
    /\ Len(historicalData) >= 2

\* C17: Monte Carlo with simulations = 1 on a series of at least two points
\* does not raise and returns exactly horizon points, each with a defined
\* price and both bounds equal to it, and defined summary metrics
C17_SingleSimulationDefined ==
    SingleSimulation =>
        /\ ~modelRun.result.threw
        /\ Len(modelRun.result.forecast) = forecastHorizon
        /\ \A i \in 1..Len(modelRun.result.forecast) :
               /\ modelRun.result.forecast[i].price.k = "num"
               /\ modelRun.result.forecast[i].upperBound
                      = modelRun.result.forecast[i].price
               /\ modelRun.result.forecast[i].lowerBound
                      = modelRun.result.forecast[i].price
        /\ \A f \in {"mean", "median", "percentile5", "percentile95",
                     "volatility"} :
               modelRun.result.metrics[f].k = "num"

C17_Witness ==
    /\ SingleSimulation
    /\ forecastHorizon = MaxHorizon
    /\ Len(modelRun.result.forecast) = MaxHorizon
    /\ modelRun.result.forecast[MaxHorizon].price.k = "num"
    /\ modelRun.result.forecast[MaxHorizon].lowerBound
           = modelRun.result.forecast[MaxHorizon].upperBound
    /\ modelRun.result.metrics.median.k = "num"

\* --------------------------------------------------------------- confidence
\* C18: every forecast point of every model carries a confidence in [0, 1],
\* at every step of every horizon >= 1
C18_ConfidenceWithinUnit ==
    (Completed /\ forecastHorizon >= 1) =>
        \A i \in 1..Len(modelRun.result.forecast) :
            /\ modelRun.result.forecast[i].confidence.k = "num"
            /\ FGe(modelRun.result.forecast[i].confidence, Num(0))
            /\ FLe(modelRun.result.forecast[i].confidence, I(1))

C18_Witness ==
    /\ Completed
    /\ modelRun.model = "arima"
    /\ forecastHorizon = MaxHorizon
    /\ Len(modelRun.result.forecast) = MaxHorizon
    /\ FLt(modelRun.result.forecast[MaxHorizon].confidence,
           modelRun.result.forecast[1].confidence)
    /\ FGe(modelRun.result.forecast[MaxHorizon].confidence, Num(0))

FirstConfidence == modelRun.result.forecast[1].confidence
LastConfidence == modelRun.result.forecast[Len(modelRun.result.forecast)].confidence

\* C19: over a horizon >= 2 the ARIMA-GARCH confidence is 0.95 at the first
\* point and 0.75 at the last, and the LSTM confidence is 0.9 at the first
\* point and 0.5 at the last
C19_ConfidenceEndpoints ==
    (Completed /\ forecastHorizon >= 2) =>
        /\ (modelRun.model = "arima" =>
                FirstConfidence = Num(9500) /\ LastConfidence = Num(7500))
        /\ (modelRun.model = "lstm" =>
                FirstConfidence = Num(9000) /\ LastConfidence = Num(5000))

\* ------------------------------------------------ the simulated OHLC points
\* the stored series came out of the enhancement step
Enhanced(hd) == \A i \in 1..Len(hd) : hd[i].open # Undefined

MaxHistoricalFetches == 4

\* two of the timeframes of the selector; '1y' is the initial one
Timeframes == {"1d", "1y"}

\* what GET /historical/<timeframe> may answer with: the prices of data.data
UpstreamSeries(timeframe) ==
    IF timeframe = "1y" THEN {<<I(1), I(2)>>, <<I(1), I(-2)>>}
    ELSE {<<I(3)>>, <<I(3), Num(0)>>}

\* the draws behind the simulated OHLC of a fetched series: a constant one
FetchTapes == {<<Num(5000)>>}

HistoricalCalls ==
    Len(historicalFetches) + fetchLog.succeeded + fetchLog.failed

\* a call in flight remembers its timeframe and the historicalData of the
\* render that made it
FetchOf(timeframe, before) == [timeframe |-> timeframe, before |-> before]

RemoveAt(fetches, k) == [i \in 1..(Len(fetches) - 1) |-> IF i < k THEN fetches[i] ELSE fetches[i + 1]]

forecastVars == <<historicalData, forecastData, forecastHorizon, isLoading,
                  fetchCalls, fetchInFlight, lastCall, modelRun, comparisonRows>>

\* the synchronous head of fetchHistoricalData(timeframe), `calls` times in
\* one handler: setHistoricalData([]), setIsLoading(true), then the request
StartHistoricalFetch(timeframe, calls) ==
    /\ HistoricalCalls + calls <= MaxHistoricalFetches
    /\ SetHistoricalData(<< >>)
    /\ terminalIsLoading' = TRUE
    /\ historicalFetches' =
          IF calls = 1
          THEN Append(historicalFetches, FetchOf(timeframe, terminalData))
          ELSE Append(Append(historicalFetches, FetchOf(timeframe, terminalData)),
                      FetchOf(timeframe, << >>))

\* the selectedTimeframe effect on mount: fetchHistoricalData('1y')
MountTimeframeEffect ==
    /\ mountStage = "constructed"
    /\ StartHistoricalFetch(selectedTimeframe, 1)
    /\ mountStage' = "mounted"
    /\ UNCHANGED <<selectedTimeframe, fetchLog, forecastVars>>

\* initializeDashboard after its price fetch: historicalData.length is 0 in
\* the mount render, so it calls fetchHistoricalData with the mount
\* render's selectedTimeframe
InitializeDashboard ==
    /\ mountStage = "mounted"
    /\ StartHistoricalFetch("1y", 1)
    /\ mountStage' = "initialized"
    /\ UNCHANGED <<selectedTimeframe, fetchLog, forecastVars>>

\* a timeframe button: setHistoricalData([]), setSelectedTimeframe, a direct
\* fetchHistoricalData, and one more from the effect when the value changed
HandleTimeframeChange ==
    /\ mountStage # "constructed"
    /\ \E timeframe \in Timeframes :
         /\ StartHistoricalFetch(timeframe,
                                 IF timeframe = selectedTimeframe THEN 1 ELSE 2)
         /\ selectedTimeframe' = timeframe
    /\ UNCHANGED <<mountStage, fetchLog, forecastVars>>

\* the refresh button, disabled while isLoading
ManualRefresh ==
    /\ mountStage # "constructed"
    /\ ~terminalIsLoading
    /\ StartHistoricalFetch(selectedTimeframe, 1)
    /\ UNCHANGED <<selectedTimeframe, mountStage, fetchLog, forecastVars>>

\* a response with a non-empty data array: the enhanced series is stored
\* and the finally block clears isLoading
HistoricalFetchSucceeds ==
    /\ \E k \in 1..Len(historicalFetches), tape \in FetchTapes :
         \E prices \in UpstreamSeries(historicalFetches[k].timeframe) :
            /\ SetHistoricalData(EnhanceData(BareSeries(prices), tape))
            /\ historicalFetches' = RemoveAt(historicalFetches, k)
    /\ terminalIsLoading' = FALSE
    /\ fetchLog' = [fetchLog EXCEPT !.succeeded = @ + 1]
    /\ UNCHANGED <<selectedTimeframe, mountStage, forecastVars>>

\* a network error, a non-OK status or an empty data array: the catch block
\* stores nothing and the finally block clears isLoading
HistoricalFetchFails ==
    /\ \E k \in 1..Len(historicalFetches) :
         historicalFetches' = RemoveAt(historicalFetches, k)
    /\ terminalIsLoading' = FALSE
    /\ fetchLog' = [fetchLog EXCEPT !.failed = @ + 1]
    /\ UNCHANGED <<terminalData, technicalData, macdData, portfolioAnalytics,
                   selectedTimeframe, mountStage, forecastVars>>

NextTerminal ==
    \/ MountTimeframeEffect
    \/ InitializeDashboard
    \/ HandleTimeframeChange
    \/ ManualRefresh
    \/ HistoricalFetchSucceeds
    \/ HistoricalFetchFails

SpecTerminal == InitForecast /\ [][NextTerminal]_vars

\* C21: a series with a non-positive price never becomes the historicalData
\* that the indicators and the risk metrics are computed from
C21_StoredPricesPositive == PositivePrices(terminalData)

\* --------------------------------- forecasting dashboard: model comparison
\* one row of the summary table, from forecastData[model.id]
ComparisonRow_FirstPoint(data) ==
    [finalPrice |-> data.forecast[1].price,
     priceRange |-> FSub(data.forecast[1].upperBound, data.forecast[1].lowerBound),
     avgConfidence |->
        FDiv(FSum([i \in 1..Len(data.forecast) |->
                      OrElse(data.forecast[i].confidence, Num(0))]),
             I(Len(data.forecast)))]

ComparisonRow(data) ==
    [finalPrice |-> data.forecast[Len(data.forecast)].price,
     priceRange |-> FSub(data.forecast[Len(data.forecast)].upperBound,
                         data.forecast[Len(data.forecast)].lowerBound),
     avgConfidence |->
        FDiv(FSum([i \in 1..Len(data.forecast) |->
                      OrElse(data.forecast[i].confidence, Num(0))]),
             I(Len(data.forecast)))]

\* !data || !data.forecast || data.forecast.length === 0 gives no row
HasRows(fd, id) == id \in DOMAIN fd /\ Len(fd[id].forecast) > 0

\* models.map(model => ...): the rows of the table, by model id
ModelComparison(fd) ==
    [id \in {m \in ModelIds : HasRows(fd, m)} |-> ComparisonRow(fd[id])]

\* a render of the dashboard with the current forecastData
RenderComparison ==
    /\ comparisonRows' = ModelComparison(forecastData)
    /\ UNCHANGED <<historicalData, forecastData, forecastHorizon, isLoading,
                   fetchCalls, fetchInFlight, lastCall, modelRun, termVars>>

\* the dashboard with a series already loaded and no request in flight
InitComparison ==
    /\ historicalData \in DashSeries
    /\ forecastData = NoForecasts
    /\ forecastHorizon \in HorizonOptions
    /\ isLoading = FALSE
    /\ fetchCalls = 0
    /\ fetchInFlight = 0
    /\ lastCall = "none"
    /\ modelRun = NoRun
    /\ comparisonRows = << >>
    /\ InitTerminal

NextComparison ==
    \/ ClickGenerate
    \/ RenderComparison

SpecComparison == InitComparison /\ [][NextComparison]_vars

SumOfConfidence(forecast) ==
    LET Sum[i \in 0..Len(forecast)] ==
            IF i = 0 THEN 0 ELSE Sum[i - 1] + forecast[i].confidence.v
    IN Sum[Len(forecast)]

\* the rows describe fd: one row per model with a non-empty forecast, made of
\* the last point's price, the last point's upperBound - lowerBound, and the
\* mean confidence (to the last digit kept)
RowsDescribe(rows, fd) ==
    /\ DOMAIN rows = {m \in ModelIds : m \in DOMAIN fd /\ fd[m].forecast # << >>}
    /\ \A m \in DOMAIN rows :
         LET forecast == fd[m].forecast
             last == forecast[Len(forecast)]
         IN /\ rows[m].finalPrice = last.price
            /\ rows[m].priceRange = FSub(last.upperBound, last.lowerBound)
            /\ rows[m].avgConfidence.k = "num"
            /\ rows[m].avgConfidence.v * Len(forecast) <= SumOfConfidence(forecast)
            /\ SumOfConfidence(forecast)
                   < (rows[m].avgConfidence.v + 1) * Len(forecast)

\* C22: a render that changes the comparison leaves forecastData as it was
\* and yields one row for exactly the models whose forecast is present and
\* non-empty, with the last point's price, the last point's range and the
\* mean of the points' confidences
C22_ComparisonDescribesForecasts ==
    [][comparisonRows' # comparisonRows =>
          /\ forecastData' = forecastData
          /\ RowsDescribe(comparisonRows', forecastData')]_vars

C22_Witness ==
    /\ forecastData # NoForecasts
    /\ forecastHorizon = MaxHorizon
    /\ DOMAIN comparisonRows = ModelIds
    /\ RowsDescribe(comparisonRows, forecastData)
    /\ comparisonRows["arima"].avgConfidence = Num(9000)

\* -------------------------------------------------------- the MACD signal
\* the MACD values of the nine-point window that ends at the 1-based index i
TrailingMacd(i) ==
    SelectSeq([j \in 1..(IF i >= 9 THEN 9 ELSE i) |->
                  macdData[(IF i >= 9 THEN i - 9 ELSE 0) + j].macd],
              LAMBDA v : v # Null)

\* C23: macd, signal and histogram are numbers together or null together;
\* where they are numbers histogram = macd - signal; with fewer than nine
\* non-null MACD values in the trailing window signal = macd and
\* histogram = 0, and with nine the signal is their 9-period EMA
C23_SignalIsEMAOfTrailingMacd ==
    \A i \in 1..Len(macdData) :
        \/ /\ macdData[i].macd = Null
           /\ macdData[i].signal = Null
           /\ macdData[i].histogram = Null
        \/ /\ macdData[i].macd.k = "num"
           /\ macdData[i].signal.k = "num"
           /\ macdData[i].histogram = FSub(macdData[i].macd, macdData[i].signal)
           /\ IF Len(TrailingMacd(i)) < 9
              THEN /\ macdData[i].signal = macdData[i].macd
                   /\ macdData[i].histogram = Num(0)
              ELSE macdData[i].signal = At(calculateEMA(TrailingMacd(i), 9), 8)

----------------------------------------------------------------------------
(* Stochastic %D against the reported %K values.                           *)

\* the mean of the three latest reported %K values at the 1-based position i,
\* summed in the order of the source's reduce (starting from 0)
ReportedAverage(i) ==
    FDiv(FAdd(FAdd(FAdd(Num(0), technicalData[i - 2].stochK),
                   technicalData[i - 1].stochK),
              technicalData[i].stochK), I(3))

\* C24: at every index that has three %K values (index >= 2, position >= 3)
\* stochD is the mean of the three latest reported %K values, and at the
\* earlier indices it is stochK of that index
C24_StochDAveragesFromIndex2 ==
    \A i \in 1..Len(technicalData) :
        /\ (i >= 3 => technicalData[i].stochD = ReportedAverage(i))
        /\ (i <= 2 => technicalData[i].stochD = technicalData[i].stochK)

----------------------------------------------------------------------------
(* CCI against a twenty-point window.                                      *)

\* the trailing window of min(20, i) stored points ending at the 1-based
\* position i
TwentyWindow(i) == Slice(terminalData, IF i >= 20 THEN i - 20 ELSE 0, i)

\* C25: the CCI of every index is computed over the trailing window of
\* min(20, index + 1) closes: sma is the mean close of that window,
\* mean_deviation the mean absolute deviation from sma, and the CCI is 0
\* when mean_deviation is 0
C25_CCIOverTwentyPoints ==
    \A i \in 1..Len(technicalData) :
        LET sma == WindowSMA(TwentyWindow(i))
        IN  technicalData[i].cci =
                CCIOf(TypicalPrice(terminalData[i]), sma,
                      MeanDeviationOf(TwentyWindow(i), sma))

----------------------------------------------------------------------------
(* The Markov model called with a regimes parameter of its caller's choice. *)

MaxRegimes == 4

\* the per-call parameter bundle { regimes: n }
RegimeCounts == 1..MaxRegimes

RunMarkovWith ==
    /\ modelRun = NoRun
    /\ \E tape \in Tapes, regimes \in RegimeCounts :
         modelRun' = [model |-> "markov", params |-> [regimes |-> regimes],
                      result |-> generateMarkov(historicalData, forecastHorizon,
                                                [regimes |-> regimes], tape)]
    /\ UNCHANGED dashVars

NextMarkov == RunMarkovWith

SpecMarkov == InitModels /\ [][NextMarkov]_vars

RegimeNames == {MarkovRegimes[r].name : r \in DOMAIN MarkovRegimes}

\* C26: whatever the regimes parameter, the series (one point or more) and
\* the draws, the Markov model does not raise and every forecast point
\* carries one of the three regime names Bull, Bear, Sideways
C26_MarkovRegimeAlwaysDefined ==
    modelRun.model = "markov" =>
        /\ ~modelRun.result.threw
        /\ Len(modelRun.result.forecast) = forecastHorizon
        /\ \A i \in 1..Len(modelRun.result.forecast) :
              modelRun.result.forecast[i].regime \in RegimeNames

----------------------------------------------------------------------------
(* Ordering of the reported risk levels.                                   *)

\* C27: for every stored series of two or more points with positive prices
\* the 5% expected shortfall is at most the 5% value-at-risk, and the
\* value-at-risk levels are ordered var1 <= var5 <= var10
C27_RiskLevelsOrdered ==
    (Len(terminalData) >= 2 /\ PositivePrices(terminalData)) =>
        /\ FLe(portfolioAnalytics.cvar5, portfolioAnalytics.var5)
        /\ FLe(portfolioAnalytics.var1, portfolioAnalytics.var5)
        /\ FLe(portfolioAnalytics.var5, portfolioAnalytics.var10)

----------------------------------------------------------------------------
(* The terminal's historical fetches: failure, overlap and the loading flag. *)

\* C28: a failed historical fetch leaves historicalData as it was before
\* the call
C28_FailedFetchKeepsData ==
    [][\A k \in 1..Len(historicalFetches) :
          (/\ historicalFetches' = RemoveAt(historicalFetches, k)
           /\ fetchLog'.failed = fetchLog.failed + 1)
          => terminalData' = historicalFetches[k].before]_vars

\* the series that a successful fetch of the timeframe can store
StoredSeriesOf(timeframe) ==
    {EnhanceData(BareSeries(prices), tape) :
        prices \in UpstreamSeries(timeframe), tape \in FetchTapes}

\* C29: once every fetch has completed, all of them successfully,
\* historicalData holds a series of the selected timeframe
C29_SettledDataIsOfSelectedTimeframe ==
    (/\ historicalFetches = << >>
     /\ fetchLog.succeeded > 0
     /\ fetchLog.failed = 0)
    => terminalData \in StoredSeriesOf(selectedTimeframe)

\* C30: isLoading is true while a historical fetch is in flight, and false
\* once every fetch has completed
C30_LoadingWhileInFlight ==
    /\ Len(historicalFetches) > 0 => terminalIsLoading
    /\ historicalFetches = << >> => ~terminalIsLoading

====
